---- MODULE Spec2Model ----
(***************************************************************************)
(* Model of the note-pool transport of tuman-vpn (core/storage/yanotes.py) *)
(* and of the tunnel loops that ride on it (client/tunnel.py,              *)
(* server/tunnel.py).                                                      *)
(*                                                                         *)
(* One direction of the transport is modelled: the writer endpoint is the  *)
(* client (send_direction '>'), the reader endpoint is the worker          *)
(* (recv_direction '>').  The endpoint code is the same class for both     *)
(* roles, so the other direction is the mirror image.                      *)
(***************************************************************************)
EXTENDS Naturals, Integers, Sequences, FiniteSets, TLC

(***************************************************************************)
(* Bounds of the model.                                                    *)
(***************************************************************************)
NumNotes == 1          \* size of the writer's write pool
MaxChunks == 2         \* DATA chunks the producing tunnel loop emits
MaxFaults == 1         \* HTTP faults (lost reply, 5xx, 4xx) injected per run
MaxTicks == 1          \* clock ticks per run
TickMs == 660000       \* milliseconds per clock tick
MaxPuts == 2           \* one-shot put() calls per run (SenderSpec)
MaxPeerWrites == 3     \* clears / DATA units of an arbitrary peer
SmallBytes == 10       \* payload sizes of put(), in bytes
LargeBytes == 3000000
OverBytes == 4000100
MaxPeerMsgs == 2       \* message units of an arbitrary peer (MsgInboxSpec)
MaxGets == 2           \* get() calls per run (MsgInboxSpec)
MaxPoolNotes == 3      \* size of the pool _release_note is applied to (ReleaseSpec)
MaxReleases == 3       \* _release_note calls per run (ReleaseSpec)
MaxErrors == 2         \* exceptions raised inside the loops per run (LoopSpec)
MaxQueued == 4         \* put() calls per run of the producers of BacklogSpec
MaxDuplexBatches == 2  \* batches each endpoint has to dispatch (DuplexSpec)
MaxDeltas == 2         \* changes the service records per run (DeltaSpec)
MaxLineBatches == 1    \* snippets of an arbitrary peer (LineSpec)
IdleTicks == 2         \* tunnel_idle_timeout in ticks of the clock (IdleSpec)
MaxInFlight == 2       \* chunks put for a running loop and not yet taken (IdleSpec)
LongTunnelChunks == 100000  \* chunks of the longest tunnel (RoundTripSpec)
MaxRecvs == 4          \* reads of the producing tunnel loop that return data
MaxDeliveries == 4     \* units the transport delivers per run (HandshakeSpec)

(***************************************************************************)
(* Program constants.                                                      *)
(***************************************************************************)
MAX_SNIPPET_CHARS == 2000000
STALE_TIMEOUT_MS == 600000
max_retries == 3
ID_LEN == 16
NUM_LEN == 5
TYPE_LEN == 4
chunk_size == 7800

TYPE_DATA == "DATA"
TYPE_RQST == "RQST"
TYPE_RESP == "RESP"

WriterRole == "client"
ReaderRole == "server"

\* YaNotesStorage.__init__: direction markers by role.
SendDirection(role) == IF role = "client" THEN ">" ELSE "<"
RecvDirection(role) == IF role = "client" THEN "<" ELSE ">"

\* The writer's write pool, which is the reader's read pool.
write_pool == 1..NumNotes
read_pool == write_pool

\* A request id: 13 digits of unix milliseconds followed by 3 hex digits.
\* The model keeps the timestamp and the suffix apart.
RID == [ts |-> 0, rnd |-> 1]
RID2 == [ts |-> 0, rnd |-> 2]
RID3 == [ts |-> 0, rnd |-> 3]

NoItem == [none |-> TRUE]
NoData == <<-1>>

(***************************************************************************)
(* Helpers on sequences.                                                   *)
(***************************************************************************)
RECURSIVE SumSeq(_)
SumSeq(s) == IF s = <<>> THEN 0 ELSE Head(s) + SumSeq(Tail(s))

RECURSIVE Concat(_)
Concat(ss) == IF ss = <<>> THEN <<>> ELSE Head(ss) \o Concat(Tail(ss))

RECURSIVE NumDigits(_)
NumDigits(n) == IF n < 10 THEN 1 ELSE 1 + NumDigits(n \div 10)

\* Python's format spec :05d pads to five digits and never truncates.
Fmt05dLen(n) == IF NumDigits(n) < 5 THEN 5 ELSE NumDigits(n)

(***************************************************************************)
(* Titles and units.                                                       *)
(***************************************************************************)
\* _make_title: f"{send_direction}{request_id}:{chunk:05d}/{total:05d}:{msg_type}"
MakeTitle(role, request_id, chunk, total, msg_type) ==
    [direction |-> SendDirection(role), request_id |-> request_id,
     chunk |-> chunk, total |-> total, type |-> msg_type]

\* len(title) for a title built by _make_title (16-character request id,
\* 4-character type).
TitleLen(t) == 1 + 16 + 1 + Fmt05dLen(t.chunk) + 1 + Fmt05dLen(t.total) + 1 + 4

\* base65536.encode packs two bytes into one character (an odd last byte
\* takes a character of its own).
EncodedLen(nbytes) == (nbytes + 1) \div 2

\* base65536.encode: the characters of the text, each given as the bytes
\* it stands for.
Base65536Encode(bytes) ==
    [i \in 1..EncodedLen(Len(bytes)) |->
        IF 2 * i <= Len(bytes) THEN <<bytes[2 * i - 1], bytes[2 * i]>>
        ELSE <<bytes[2 * i - 1]>>]

\* base65536.decode: the bytes of every character, in order.
Base65536Decode(text) == Concat(text)

\* item_chars of _sender_loop.
ItemChars(item) == TitleLen(item.title) + item.chars + 2

\* len(batch_text) of do_send: '\n'.join(f"{t}\t{d}" ...).
SnippetChars(items) ==
    IF items = <<>> THEN 0
    ELSE SumSeq([i \in DOMAIN items |-> TitleLen(items[i].title) + 1 + items[i].chars])
         + (Len(items) - 1)

VARIABLES
    free_notes,        \* writer: _free_notes
    busy_notes,        \* writer: _busy_notes
    batch_queue,       \* writer: batch_queue, a FIFO of (title, encoded)
    s_pc,              \* writer: position of the sender thread
    batch,             \* writer: _sender_loop's local batch
    batch_chars,       \* writer: _sender_loop's local batch_chars
    pending,           \* writer: the item whose arrival triggered an overflow send
    send_tasks,        \* writer: do_send closures running in _send_pool
    dispatched,        \* history: the batches handed to _send_pool, in order
    w_feed,            \* service: the changes after the writer's last_revision
                       \*   that its _polling_loop does not skip, oldest first
    r_feed,            \* service: the same for the reader
    endpoints,         \* the roles whose YaNotesStorage has been constructed
    proc_tasks,        \* reader: _process_batch calls running in _process_pool
    clear_tasks,       \* reader: _patch_note(note, "", "") calls in _send_pool
    inbox_data,        \* reader: inbox_data
    inbox_complete,    \* reader: inbox_complete
    pending_requests,  \* reader: pending_requests
    chunk_id_sent,     \* producing tunnel loop: chunk_id_sent
    received,          \* consuming tunnel loop: last_chunk_received
    written,           \* history: what the consuming loop wrote to its socket
    taken,             \* history: what get() returned
    stored,            \* history: the units handed to _store_entry, in order
    put_log,           \* history: the put() calls and what they reported
    released,          \* history: the reasons _release_note was called for
    peer_writes,       \* history: number of writes of the arbitrary peer
    faults,            \* history: number of injected HTTP faults
    now,               \* clock, in ticks of TickMs
    w_pc,              \* writer: position of the receiver thread in _polling_loop
    w_page,            \* writer: the items of the fetched page not yet handled
    w_handled,         \* writer: the items of the fetched page already handled
    rel_log,           \* history: the _release_note calls of ReleaseSpec
    parse_call,        \* the last _parse_title call: its text and its result
    patch_call,        \* the _patch_note call of PatchSpec and what happened to it
    outcomes,          \* history: the do_send closures that returned, and how
    stop_flag,         \* writer: _stop_event
    alive,             \* writer: which of its two loops have not returned
    errors,            \* history: the loops in which an exception was raised, in order
    t_kind,            \* producing tunnel loop: which handler runs it
    t_pc,              \* producing tunnel loop: not entered, in its while loop, or left
    t_buf,             \* producing tunnel loop: the buffer, as the sizes of the reads in it
    t_recvs,           \* history: the reads of the producing loop that returned data, in order
    flushes,           \* history: why the producing loop emitted each chunk
    h_pc,              \* client front-end: position of the handler that opens the tunnel
    h_reply,           \* client front-end: the failure it reported to its client
    k_pc,              \* worker: position of the thread that serves the tunnel
    k_sent,            \* worker: last_chunk_sent of its tunnel loop
    k_queue,           \* worker endpoint: batch_queue
    c_inbox,           \* client endpoint: inbox_data, inbox_complete, pending_requests
    delivered,         \* history: number of units the transport has delivered
    hs_log,            \* history: the events of the tunnel set-up, in order
    th_pc,             \* lock discipline: the next step of every thread
    lock_owner,        \* lock discipline: the thread that holds each mutex
    writes,            \* history: the PATCHes the service applied, in order
    processed,         \* history: the batch writes whose units the reader has stored
    d_free,            \* both directions: _free_notes of each endpoint
    d_busy,            \* both directions: _busy_notes of each endpoint
    d_pc,              \* both directions: position of each sender thread
    d_left,            \* both directions: batches each sender has still to dispatch
    d_send,            \* both directions: closures in each _send_pool
    d_feed,            \* both directions: deltas each polling loop has not fetched yet
    d_proc,           \* both directions: calls in each _process_pool
    executed,         \* worker main loop: the request ids it has started a handler thread for
    deltas,            \* service: the changes of the database, in revision order
    last_revision,     \* receiver loop: the stored revision
    rv_pc,             \* receiver loop: before the poll or inside the loop over a page
    new_rev,           \* receiver loop: the revision value of the page in hand
    rv_page,           \* receiver loop: revisions of the page not handled yet
    rv_log,           \* history: what the loop did with each change it handled
    tn_pc,             \* tunnel pair: loop / closed, per end
    tn_idle,           \* tunnel pair: ticks since last_activity_time, per end
    tn_buf,            \* tunnel pair: the outbound buffer is not empty, per end
    tn_in              \* tunnel pair: chunks put by the peer and not yet taken, per end

poolVars   == <<free_notes, busy_notes>>
senderVars == <<batch_queue, s_pc, batch, batch_chars, pending, dispatched>>
patchVars  == <<send_tasks, clear_tasks, faults>>
feedVars   == <<w_feed, r_feed, endpoints>>
pollVars   == <<proc_tasks>>
inboxVars  == <<inbox_data, inbox_complete, pending_requests, stored, taken>>
tunnelVars == <<chunk_id_sent, received, written>>
histVars   == <<writes, processed>>
envVars    == <<put_log, released, peer_writes, now, outcomes, histVars>>
loopVars   == <<w_pc, w_page, w_handled>>
lockVars   == <<th_pc, lock_owner>>
callVars   == <<rel_log, parse_call, patch_call, lockVars>>
runVars    == <<stop_flag, alive, errors>>
handlerVars == <<t_kind, t_pc, t_buf, t_recvs, flushes>>
shakeVars  == <<h_pc, h_reply, k_pc, k_sent, k_queue, c_inbox, delivered, hs_log>>
duplexVars == <<d_free, d_busy, d_pc, d_left, d_send, d_feed, d_proc>>
workerVars == <<executed>>
deltaVars  == <<deltas, last_revision, rv_pc, new_rev, rv_page, rv_log>>
idleVars   == <<tn_pc, tn_idle, tn_buf, tn_in>>
auxVars    == <<loopVars, callVars, runVars, handlerVars, shakeVars, duplexVars, workerVars,
                deltaVars, idleVars>>

vars == <<poolVars, senderVars, patchVars, feedVars, pollVars, inboxVars, tunnelVars,
          envVars, auxVars>>

\* The variables of the one-direction model of an endpoint.
baseVars == <<poolVars, senderVars, patchVars, feedVars, pollVars, inboxVars, tunnelVars,
              envVars, loopVars, callVars, runVars, handlerVars,
              shakeVars>>

NowMs == now * TickMs

\* Whether the loop has not left its while not self._stop_event.is_set().
SenderRuns == "sender" \in alive
ReceiverRuns == "receiver" \in alive

(***************************************************************************)
(* State after YaNotesStorage.__init__ on the endpoints in roles.          *)
(***************************************************************************)
PoolStart ==
    /\ free_notes = write_pool
    /\ busy_notes = {}

\* Everything but the note pool.
EndpointStart(roles) ==
    /\ endpoints = roles
    /\ batch_queue = <<>>
    /\ s_pc = "drain"
    /\ batch = <<>>
    /\ batch_chars = 0
    /\ pending = NoItem
    /\ send_tasks = {}
    /\ dispatched = <<>>
    /\ w_feed = <<>>
    /\ r_feed = <<>>
    /\ proc_tasks = {}
    /\ clear_tasks = {}
    /\ inbox_data = <<>>
    /\ inbox_complete = <<>>
    /\ pending_requests = <<>>
    /\ chunk_id_sent = 0
    /\ received = 0
    /\ written = <<>>
    /\ taken = <<>>
    /\ stored = <<>>
    /\ put_log = <<>>
    /\ released = {}
    /\ peer_writes = 0
    /\ faults = 0
    /\ now = 0
    /\ w_pc = "poll"
    /\ w_page = <<>>
    /\ w_handled = <<>>
    /\ rel_log = <<>>
    /\ parse_call = NoItem
    /\ patch_call = NoItem
    /\ outcomes = <<>>
    /\ stop_flag = FALSE
    /\ alive = {"sender", "receiver"}
    /\ errors = <<>>
    /\ t_kind = "none"
    /\ t_pc = "idle"
    /\ t_buf = <<>>
    /\ t_recvs = <<>>
    /\ flushes = <<>>
    /\ h_pc = "idle"
    /\ h_reply = "none"
    /\ k_pc = "idle"
    /\ k_sent = 0
    /\ k_queue = <<>>
    /\ c_inbox = [data |-> <<>>, complete |-> <<>>, pending |-> <<>>, asm |-> NoItem]
    /\ delivered = 0
    /\ hs_log = <<>>
    /\ th_pc = [th \in {"main", "receiver", "sender", "send_pool", "process_pool", "tunnel"}
                   |-> 1]
    /\ lock_owner = [l \in {"pool", "inbox", "revision"} |-> "none"]
    /\ writes = <<>>
    /\ processed = {}
    /\ d_free = [r \in {"client", "server"} |-> write_pool]
    /\ d_busy = [r \in {"client", "server"} |-> {}]
    /\ d_pc = [r \in {"client", "server"} |-> "drain"]
    /\ d_left = [r \in {"client", "server"} |-> MaxDuplexBatches]
    /\ d_send = [r \in {"client", "server"} |-> {}]
    /\ d_feed = [r \in {"client", "server"} |-> <<>>]
    /\ d_proc = [r \in {"client", "server"} |-> {}]
    /\ executed = <<>>
    /\ deltas = <<>>
    /\ last_revision = 0
    /\ rv_pc = "poll"
    /\ new_rev = 0
    /\ rv_page = <<>>
    /\ rv_log = <<>>
    /\ tn_pc = [r \in {"client", "server"} |-> "loop"]
    /\ tn_idle = [r \in {"client", "server"} |-> 0]
    /\ tn_buf = [r \in {"client", "server"} |-> FALSE]
    /\ tn_in = [r \in {"client", "server"} |-> 0]

InitOf(roles) == EndpointStart(roles) /\ PoolStart

\* Both endpoints run.
Init == InitOf({WriterRole, ReaderRole})

\* Only the writer runs; its peer is arbitrary.
WriterInit == InitOf({WriterRole})

\* Only the reader runs; its peer is arbitrary.
ReaderInit == InitOf({ReaderRole})

(***************************************************************************)
(* Titles as text: _parse_title and TITLE_RE.                              *)
(***************************************************************************)
\* A text is a sequence of one-character strings.
DigitChars == <<"0", "1", "2", "3", "4", "5", "6", "7", "8", "9">>
LetterChars ==
    {"A", "B", "C", "D", "E", "F", "G", "H", "I", "J", "K", "L", "M", "N", "O", "P", "Q",
     "R", "S", "T", "U", "V", "W", "X", "Y", "Z", "a", "b", "c", "d", "e", "f", "g", "h",
     "i", "j", "k", "l", "m", "n", "o", "p", "q", "r", "s", "t", "u", "v", "w", "x", "y", "z"}

\* The character classes of TITLE_RE: \d, \w and . (anything but a newline).
IsDigit(c) == \E i \in DOMAIN DigitChars : DigitChars[i] = c
IsWord(c) == IsDigit(c) \/ c \in LetterChars \/ c = "_"
IsDot(c) == c # "\n"

\* int() of a text of digits.
DigitVal(c) == (CHOOSE i \in DOMAIN DigitChars : DigitChars[i] = c) - 1
RECURSIVE ToInt(_)
ToInt(text) ==
    IF text = <<>> THEN 0
    ELSE 10 * ToInt(SubSeq(text, 1, Len(text) - 1)) + DigitVal(text[Len(text)])

\* TITLE_RE.match(title): ^([<>])(.{16}):(\d{5})/(\d{5}):(\w{4})$ ; in Python
\* $ also matches before a newline that ends the text.
TitleMatches(text) ==
    LET n == ID_LEN + 2 * NUM_LEN + TYPE_LEN + 4 IN
    /\ \/ Len(text) = n
       \/ Len(text) = n + 1 /\ text[n + 1] = "\n"
    /\ text[1] \in {"<", ">"}
    /\ \A i \in 2..(ID_LEN + 1) : IsDot(text[i])
    /\ text[ID_LEN + 2] = ":"
    /\ \A i \in (ID_LEN + 3)..(ID_LEN + NUM_LEN + 2) : IsDigit(text[i])
    /\ text[ID_LEN + NUM_LEN + 3] = "/"
    /\ \A i \in (ID_LEN + NUM_LEN + 4)..(ID_LEN + 2 * NUM_LEN + 3) : IsDigit(text[i])
    /\ text[ID_LEN + 2 * NUM_LEN + 4] = ":"
    /\ \A i \in (ID_LEN + 2 * NUM_LEN + 5)..n : IsWord(text[i])

\* _parse_title: None, or the five groups with chunk and total through int().
ParseTitle(text) ==
    IF ~TitleMatches(text) THEN NoItem
    ELSE [direction |-> text[1],
          request_id |-> SubSeq(text, 2, ID_LEN + 1),
          chunk |-> ToInt(SubSeq(text, ID_LEN + 3, ID_LEN + NUM_LEN + 2)),
          total |-> ToInt(SubSeq(text, ID_LEN + NUM_LEN + 4, ID_LEN + 2 * NUM_LEN + 3)),
          type |-> SubSeq(text, ID_LEN + 2 * NUM_LEN + 5, ID_LEN + 2 * NUM_LEN + TYPE_LEN + 4)]

\* The texts handed to _parse_title: every combination of the fields below,
\* well-formed and not.
DirTexts == {<<"<">>, <<">">>, <<"x">>, <<>>}
IdTexts ==
    {<<"1", "7", "0", "0", "0", "0", "0", "0", "0", "0", "0", "0", "0", "a", "b", "c">>,
     <<"1", "7", "0", "0", "0", "0", "0", "0", "0", "0", "0", "0", "0", "a", "b">>,
     <<"1", "7", "0", "0", "0", "0", "0", "0", "0", "0", "0", "0", "0", "a", "b", "c", "d">>,
     <<"1", "7", ":", "0", "0", "0", "0", "/", "0", "0", "0", "0", "0", " ", "b", "c">>,
     <<"1", "7", "0", "0", "0", "0", "0", "0", "0", "0", "0", "0", "0", "a", "\n", "c">>}
ChunkTexts ==
    {<<"0", "0", "0", "0", "0">>, <<"0", "0", "0", "0", "1">>, <<"0", "0", "0", "0", "3">>,
     <<"9", "9", "9", "9", "9">>, <<"0", "0", "0", "1">>, <<"0", "0", "0", "0", "0", "1">>,
     <<"0", "0", "0", "0", "a">>, <<"-", "0", "0", "0", "1">>}
TotalTexts ==
    {<<"0", "0", "0", "0", "0">>, <<"0", "0", "0", "0", "1">>, <<"9", "9", "9", "9", "9">>,
     <<"0", "0", "0", "0", "x">>, <<"1", "2", "3", "4", "5", "6">>}
TypeTexts ==
    {<<"D", "A", "T", "A">>, <<"R", "Q", "S", "T">>, <<"R", "E", "S", "P">>,
     <<"D", "A", "T">>, <<"D", "A", "T", "A", "X">>, <<"D", "A", "-", "A">>,
     <<"d", "_", "t", "1">>}
TailTexts == {<<>>, <<"\n">>}
SepTexts == {<<":">>, <<"/">>}

\* _process_batch hands a title of a snippet line to _parse_title (one call
\* per run).
ParseTitleCall ==
    /\ parse_call = NoItem
    /\ \E d \in DirTexts, id \in IdTexts, s1 \in SepTexts, ch \in ChunkTexts,
       to \in TotalTexts, ty \in TypeTexts, tl \in TailTexts :
        LET text == d \o id \o s1 \o ch \o <<"/">> \o to \o <<":">> \o ty \o tl IN
        /\ parse_call' = [text |-> text, result |-> ParseTitle(text)]
        /\ UNCHANGED <<lockVars, handlerVars, shakeVars, idleVars, deltaVars, workerVars,
                       duplexVars, loopVars, runVars, rel_log,
                       patch_call, poolVars, senderVars, patchVars,
                       feedVars, pollVars, inboxVars, tunnelVars, envVars>>

TitleSpec == InitOf({ReaderRole}) /\ [][ParseTitleCall]_vars

(***************************************************************************)
(* Titles as text: _make_title, and the round trip through _parse_title.   *)
(***************************************************************************)
\* str(n) for n >= 0.
RECURSIVE DigitsOf(_)
DigitsOf(n) ==
    IF n < 10 THEN <<DigitChars[n + 1]>>
    ELSE DigitsOf(n \div 10) \o <<DigitChars[(n % 10) + 1]>>

\* f"{n:05d}": zero-padded to five digits, longer numbers in full.
Fmt05d(n) ==
    LET d == DigitsOf(n) IN
    IF Len(d) >= NUM_LEN THEN d ELSE [i \in 1..(NUM_LEN - Len(d)) |-> "0"] \o d

\* _make_title as text.
MakeTitleText(role, request_id, chunk, total, msg_type) ==
    <<SendDirection(role)>> \o request_id \o <<":">> \o Fmt05d(chunk) \o <<"/">>
        \o Fmt05d(total) \o <<":">> \o msg_type

\* Request ids as the front ends build them: 13 digits of milliseconds and
\* three hex digits.
RidTexts ==
    {<<"1", "7", "0", "0", "0", "0", "0", "0", "0", "0", "0", "0", "0", "a", "b", "c">>,
     <<"1", "7", "6", "1", "9", "9", "9", "9", "9", "9", "9", "9", "9", "0", "f", "9">>}
MsgTypeTexts == {<<"D", "A", "T", "A">>, <<"R", "Q", "S", "T">>, <<"R", "E", "S", "P">>}

\* The chunk indices of _queue_entry calls: 0 and 1 for messages, and the
\* indices a tunnel loop reaches up to its LongTunnelChunks-th chunk.
ChunkIndices ==
    {0, 1, 2, 9, 10, 99, 100, 999, 1000, 9999, 10000, LongTunnelChunks - 2,
     LongTunnelChunks - 1, LongTunnelChunks}

\* _queue_entry builds a title and the peer's _process_batch hands it to
\* _parse_title (one call per run).
MakeTitleCall ==
    /\ parse_call = NoItem
    /\ \E role \in {WriterRole, ReaderRole}, id \in RidTexts, chunk \in ChunkIndices,
          total \in {0, 1}, ty \in MsgTypeTexts :
        LET text == MakeTitleText(role, id, chunk, total, ty) IN
        /\ parse_call' = [made |-> [direction |-> SendDirection(role), request_id |-> id,
                                     chunk |-> chunk, total |-> total, type |-> ty],
                           text |-> text, result |-> ParseTitle(text)]
        /\ UNCHANGED <<lockVars, handlerVars, shakeVars, idleVars, deltaVars, workerVars,
                       duplexVars, loopVars, runVars, rel_log, patch_call, poolVars,
                       senderVars, patchVars, feedVars, pollVars, inboxVars, tunnelVars,
                       envVars>>

RoundTripSpec == InitOf({ReaderRole}) /\ [][MakeTitleCall]_vars

(***************************************************************************)
(* Note pool.                                                              *)
(***************************************************************************)
\* _get_free_note: set.pop() may return any free note; the note moves to busy.
GetFreeNote(free, busy, nid) == [free |-> free \ {nid}, busy |-> busy \cup {nid}]

\* A release that hands an already free note back to busy.
ReleaseNoteToggles(free, busy, nid) ==
    IF nid \in free THEN [free |-> free \ {nid}, busy |-> busy \cup {nid}]
    ELSE [free |-> free \cup {nid}, busy |-> busy \ {nid}]

\* A release that forgets busy.discard(nid).
ReleaseNoteKeepBusy(free, busy, nid) == [free |-> free \cup {nid}, busy |-> busy]

\* _release_note: busy.discard(nid); free.add(nid).
ReleaseNote(free, busy, nid) == [free |-> free \cup {nid}, busy |-> busy \ {nid}]

\* A write pool of MaxPoolNotes notes, and the pool states it can be in:
\* every note is either free or busy.
AnyPool == 1..MaxPoolNotes
ReleaseInit ==
    /\ EndpointStart({})
    /\ free_notes \in SUBSET AnyPool
    /\ busy_notes = AnyPool \ free_notes

\* A call of _release_note on a note of the pool.
ReleaseCall ==
    \E nid \in AnyPool :
        LET pool == ReleaseNote(free_notes, busy_notes, nid) IN
        /\ Len(rel_log) < MaxReleases
        /\ free_notes' = pool.free
        /\ busy_notes' = pool.busy
        /\ rel_log' = Append(rel_log, [nid |-> nid,
                                       before |-> [free |-> free_notes, busy |-> busy_notes],
                                       after |-> pool])
        /\ UNCHANGED <<lockVars, handlerVars, shakeVars, idleVars, deltaVars, workerVars,
                       duplexVars, loopVars, runVars, parse_call,
                       patch_call, senderVars, patchVars,
                       feedVars, pollVars, inboxVars, tunnelVars, envVars>>

ReleaseSpec == ReleaseInit /\ [][ReleaseCall]_vars

(***************************************************************************)
(* Producers.                                                              *)
(***************************************************************************)
\* _queue_entry: the queued pair (title, encoded), encryption disabled.
\* data stands for a payload of nbytes bytes; chars is len(encoded).
QueueEntry(role, request_id, chunk, total, msg_type, data, nbytes) ==
    [title |-> MakeTitle(role, request_id, chunk, total, msg_type),
     data |-> Base65536Encode(data), chars |-> EncodedLen(nbytes)]

\* The payload of the k-th chunk the producing tunnel loop reads from its socket.
ChunkData(k) == <<k>>

\* The producing tunnel loop flushes its buffer: chunk_id_sent += 1, then
\* _send_chunk -> put_chunk -> _queue_entry(request_id, n, 0, DATA, data).
TunnelPut ==
    /\ chunk_id_sent < MaxChunks
    /\ chunk_id_sent' = chunk_id_sent + 1
    /\ batch_queue' = Append(batch_queue,
           QueueEntry(WriterRole, RID, chunk_id_sent + 1, 0, TYPE_DATA,
                      ChunkData(chunk_id_sent + 1), Len(ChunkData(chunk_id_sent + 1))))
    /\ UNCHANGED <<auxVars, poolVars, s_pc, batch, batch_chars, pending, dispatched, patchVars,
                   feedVars, pollVars, inboxVars, received, written, envVars>>

\* The message type put() sends, by role.
SendType(role) == IF role = "server" THEN TYPE_RESP ELSE TYPE_RQST

\* put(path, data): _queue_entry(rid, 1, 1, mtype, data).  queued is what the
\* call appends to batch_queue, raised whether it raises.
Put(role, rid, data, nbytes) ==
    [raised |-> FALSE,
     queued |-> <<QueueEntry(role, rid, 1, 1, SendType(role), data, nbytes)>>]

\* ProxyHandler._do_request around storage.put: 502 when put raises,
\* otherwise the handler goes on to wait for the response.
DoRequestReply(r) == IF r.raised THEN "502" ELSE "waits"

PutSizes == {SmallBytes, LargeBytes, OverBytes}

\* An HTTP request whose serialised form has nbytes bytes reaches the proxy.
PutMsg ==
    \E nbytes \in PutSizes :
        /\ Len(put_log) < MaxPuts
        /\ LET r == Put(WriterRole, RID2, <<nbytes>>, nbytes) IN
            /\ batch_queue' = batch_queue \o r.queued
            /\ put_log' = Append(put_log, [chars |-> EncodedLen(nbytes),
                                           raised |-> r.raised,
                                           queued |-> Len(r.queued),
                                           reply |-> DoRequestReply(r)])
        /\ UNCHANGED <<histVars, auxVars, poolVars, s_pc, batch, batch_chars, pending, dispatched,
                       patchVars, feedVars, pollVars, inboxVars, tunnelVars, released,
                       peer_writes, now, outcomes>>

\* A producer calls put() with a small payload.  batch_queue is a
\* queue.Queue() without maxsize and put() is called without block or
\* timeout, so the call has no precondition on the state of the endpoint.
PutSmall ==
    /\ Len(put_log) < MaxQueued
    /\ LET r == Put(WriterRole, RID2, <<SmallBytes>>, SmallBytes) IN
        /\ batch_queue' = batch_queue \o r.queued
        /\ put_log' = Append(put_log, [chars |-> EncodedLen(SmallBytes),
                                       raised |-> r.raised,
                                       queued |-> Len(r.queued),
                                       reply |-> DoRequestReply(r)])
    /\ UNCHANGED <<histVars, auxVars, poolVars, s_pc, batch, batch_chars, pending, dispatched,
                   patchVars, feedVars, pollVars, inboxVars, tunnelVars, released,
                   peer_writes, now, outcomes>>

(***************************************************************************)
(* Producing tunnel loop (the outbound half of TunnelHandler.handle,       *)
(* Socks5Handler._tunnel_data and ServerTunnelHandler._tunnel_loop).       *)
(***************************************************************************)
TunnelKinds == {"connect", "socks5", "worker"}

\* The endpoint whose storage the handler writes to.
RoleOf(kind) == IF kind = "worker" THEN "server" ELSE "client"

\* What recv(chunk_size) may return: between one byte and chunk_size bytes.
RecvSizes == {1, chunk_size \div 2, chunk_size - 1, chunk_size}

\* An increment that skips an index.
NextChunkIdSkips(sent) == sent + 2

\* chunk_id_sent += 1 (last_chunk_sent += 1 in the worker).
NextChunkId(sent) == sent + 1

\* put_chunk(request_id, chunk_num, data): _queue_entry(.., chunk_num, 0, DATA, data).
PutChunk(role, rid, chunk_num, data) ==
    QueueEntry(role, rid, chunk_num, 0, TYPE_DATA, data, SumSeq(data))

\* The loop emits its buffer: the counter is incremented, then put_chunk is
\* called with the new value.
LoopEmit(reason) ==
    /\ chunk_id_sent' = NextChunkId(chunk_id_sent)
    /\ batch_queue' = Append(batch_queue,
           PutChunk(RoleOf(t_kind), RID, NextChunkId(chunk_id_sent), t_buf))
    /\ flushes' = Append(flushes, reason)

\* The handshake is over and the handler enters its loop: empty buffer,
\* counter 0.
LoopOpen ==
    /\ t_pc = "idle"
    /\ \E kind \in TunnelKinds : t_kind' = kind
    /\ t_pc' = "loop"
    /\ t_buf' = <<>>
    /\ chunk_id_sent' = 0
    /\ UNCHANGED <<shakeVars, idleVars, deltaVars, workerVars, duplexVars, t_recvs, flushes,
                   loopVars, callVars, runVars, poolVars, senderVars,
                   patchVars, feedVars, pollVars, inboxVars, received, written, envVars>>

\* An iteration in which recv returns n bytes.  HTTP CONNECT client and
\* worker: when the buffer would grow past chunk_size the old buffer is
\* emitted (if it is not empty) and the new data starts the next buffer.
\* SOCKS5 client: the data is appended and the buffer is emitted once it
\* holds chunk_size bytes or more.
LoopRecv ==
    /\ t_pc = "loop"
    /\ Len(t_recvs) < MaxRecvs
    /\ \E n \in RecvSizes :
        /\ t_recvs' = Append(t_recvs, n)
        /\ IF t_kind = "socks5"
           THEN IF SumSeq(t_buf) + n >= chunk_size
                THEN /\ chunk_id_sent' = NextChunkId(chunk_id_sent)
                     /\ batch_queue' = Append(batch_queue,
                            PutChunk(RoleOf(t_kind), RID, NextChunkId(chunk_id_sent),
                                     Append(t_buf, n)))
                     /\ flushes' = Append(flushes, "size")
                     /\ t_buf' = <<>>
                ELSE /\ t_buf' = Append(t_buf, n)
                     /\ UNCHANGED <<chunk_id_sent, batch_queue, flushes>>
           ELSE IF SumSeq(t_buf) + n > chunk_size
                THEN /\ IF t_buf # <<>> THEN LoopEmit("overflow")
                        ELSE UNCHANGED <<chunk_id_sent, batch_queue, flushes>>
                     /\ t_buf' = <<n>>
                ELSE /\ t_buf' = Append(t_buf, n)
                     /\ UNCHANGED <<chunk_id_sent, batch_queue, flushes>>
    /\ UNCHANGED <<shakeVars, idleVars, deltaVars, workerVars, duplexVars, t_kind, t_pc,
                   loopVars, callVars, runVars, poolVars, s_pc, batch,
                   batch_chars, pending, dispatched, patchVars, feedVars, pollVars, inboxVars,
                   received, written, envVars>>

\* An iteration in which the buffer is not empty and chunk_idle_timeout has
\* passed since the last read: the buffer is emitted.
LoopIdleFlush ==
    /\ t_pc = "loop"
    /\ t_buf # <<>>
    /\ LoopEmit("idle")
    /\ t_buf' = <<>>
    /\ UNCHANGED <<shakeVars, idleVars, deltaVars, workerVars, duplexVars, t_kind, t_pc,
                   t_recvs, loopVars, callVars, runVars, poolVars,
                   s_pc, batch,
                   batch_chars, pending, dispatched, patchVars, feedVars, pollVars, inboxVars,
                   received, written, envVars>>

\* A loop that leaves without the flush after the loop.
LoopCloseNoFlush ==
    /\ t_pc = "loop"
    /\ t_pc' = "closed"
    /\ UNCHANGED <<chunk_id_sent, batch_queue, flushes>>
    /\ UNCHANGED <<shakeVars, idleVars, deltaVars, workerVars, duplexVars, t_kind, t_buf,
                   t_recvs, loopVars,
                   callVars, runVars, poolVars, s_pc, batch, batch_chars, pending, dispatched,
                   patchVars, feedVars, pollVars, inboxVars, received, written, envVars>>

\* The loop is left (the socket is closed or fails, or the tunnel was idle
\* for tunnel_idle_timeout) and what remains in the buffer is emitted.
LoopClose ==
    /\ t_pc = "loop"
    /\ t_pc' = "closed"
    /\ IF t_buf # <<>> THEN LoopEmit("final")
       ELSE UNCHANGED <<chunk_id_sent, batch_queue, flushes>>
    /\ UNCHANGED <<shakeVars, idleVars, deltaVars, workerVars, duplexVars, t_kind, t_buf,
                   t_recvs, loopVars, callVars, runVars, poolVars,
                   s_pc, batch,
                   batch_chars, pending, dispatched, patchVars, feedVars, pollVars, inboxVars,
                   received, written, envVars>>

\* The three producing loops on their own: nothing drains batch_queue, so
\* it lists the put_chunk calls in the order they were made.
TunnelLoopNext ==
    \/ LoopOpen
    \/ LoopRecv
    \/ LoopIdleFlush
    \/ LoopClose

TunnelLoopSpec == Init /\ [][TunnelLoopNext]_vars

(***************************************************************************)
(* Sender thread.                                                          *)
(***************************************************************************)
\* An overflow test without the "batch and" conjunct.
OverflowsEvenEmpty(b, b_chars, item) == b_chars + ItemChars(item) > MAX_SNIPPET_CHARS

\* The overflow test of _sender_loop.
Overflows(b, b_chars, item) == b # <<>> /\ b_chars + ItemChars(item) > MAX_SNIPPET_CHARS

\* One iteration of the drain loop: get_nowait(), then either the overflow
\* trigger (which calls _fire_send before the item is appended) or the append.
SenderTake ==
    /\ SenderRuns
    /\ s_pc = "drain"
    /\ batch_queue # <<>>
    /\ LET item == Head(batch_queue) IN
        /\ batch_queue' = Tail(batch_queue)
        /\ IF Overflows(batch, batch_chars, item)
           THEN /\ s_pc' = "fire"
                /\ pending' = item
                /\ UNCHANGED <<batch, batch_chars>>
           ELSE /\ batch' = Append(batch, item)
                /\ batch_chars' = batch_chars + ItemChars(item)
                /\ UNCHANGED <<s_pc, pending>>
    /\ UNCHANGED <<auxVars, poolVars, dispatched, patchVars, feedVars, pollVars, inboxVars,
                   tunnelVars, envVars>>

\* The timeout trigger: the queue is drained, the batch is not empty and
\* BATCH_TIMEOUT has elapsed since the last send.
SenderTimeout ==
    /\ SenderRuns
    /\ s_pc = "drain"
    /\ batch_queue = <<>>
    /\ batch # <<>>
    /\ s_pc' = "fire"
    /\ UNCHANGED <<auxVars, poolVars, batch_queue, batch, batch_chars, pending, dispatched,
                   patchVars, feedVars, pollVars, inboxVars, tunnelVars, envVars>>

\* A do_send closure: the note, the outer title, items_copy, and the state
\* of its _patch_note call.
NewPatch(id, note, title, items) ==
    [id |-> id, note |-> note, title |-> title, items |-> items,
     attempt |-> 0, phase |-> "req"]

\* What _fire_send hands to _send_pool: items_copy = items[:].
ItemsCopy(items) == items

\* A wait loop that asks for a note on entry only.
TriesAcquireOnce(pc) == pc = "fire"

\* The wait loop of _fire_send: _get_free_note() is called on entry and
\* again after every 0.1 s sleep.
TriesAcquire(pc) == pc \in {"fire", "wait"}

\* A _fire_send that gives up when no note is free and returns to
\* _sender_loop, which resets the batch.
FireSendBlockDrops ==
    /\ s_pc \in {"fire", "wait"}
    /\ free_notes = {}
    /\ s_pc' = "drain"
    /\ batch' = IF pending = NoItem THEN <<>> ELSE <<pending>>
    /\ batch_chars' = IF pending = NoItem THEN 0 ELSE ItemChars(pending)
    /\ pending' = NoItem
    /\ UNCHANGED <<auxVars, poolVars, batch_queue, dispatched, patchVars, feedVars, pollVars,
                   inboxVars, tunnelVars, envVars>>

\* _fire_send while no note is free: _get_free_note() returns None and the
\* thread sleeps 0.1 s, keeping items.
FireSendBlock ==
    /\ SenderRuns
    /\ s_pc = "fire"
    /\ free_notes = {}
    /\ s_pc' = "wait"
    /\ UNCHANGED <<auxVars, poolVars, batch_queue, batch, batch_chars, pending, dispatched,
                   patchVars, feedVars, pollVars, inboxVars, tunnelVars, envVars>>

\* _fire_send once _get_free_note() returns a note: submit do_send, return to
\* _sender_loop, which resets the batch (and appends the overflowing item).
FireSendAcquire ==
    /\ SenderRuns
    /\ ~stop_flag
    /\ TriesAcquire(s_pc)
    /\ \E nid \in free_notes :
        LET pool == GetFreeNote(free_notes, busy_notes, nid) IN
        /\ free_notes' = pool.free
        /\ busy_notes' = pool.busy
        /\ send_tasks' = send_tasks \cup
               {NewPatch(Len(dispatched) + 1, nid, SendDirection(WriterRole),
                         ItemsCopy(batch))}
        /\ dispatched' = Append(dispatched,
               [items |-> ItemsCopy(batch), waited |-> (s_pc = "wait")])
    /\ s_pc' = "drain"
    /\ batch' = IF pending = NoItem THEN <<>> ELSE <<pending>>
    /\ batch_chars' = IF pending = NoItem THEN 0 ELSE ItemChars(pending)
    /\ pending' = NoItem
    /\ UNCHANGED <<auxVars, batch_queue, clear_tasks, faults, feedVars, pollVars, inboxVars,
                   tunnelVars, envVars>>

(***************************************************************************)
(* _patch_note.                                                            *)
(***************************************************************************)
\* What can happen to an attempt.  In phase "req" the request has not
\* reached the service: it is applied ("apply"), or the attempt ends with a
\* network error or an HTTP error reply: "http5xx" is a status of (500, 502,
\* 503, 504), "http501" a 5xx status outside that list, "http4xx" a 4xx
\* status.  In phase "resp" the service has applied the request: the 200 or
\* 201 reply arrives ("http200"), or it is lost (timeout).
PatchEvents(t) ==
    IF t.phase = "req" THEN {"apply", "neterr", "http5xx", "http501", "http4xx"}
    ELSE {"http200", "neterr"}

IsFault(ev) == ev \in {"neterr", "http5xx", "http501", "http4xx"}

\* The retry loop: the state of the call after the event; phases "ok" and
\* "fail" are the return values True and False.
PatchNext(t, ev) ==
    CASE ev = "apply"   -> [t EXCEPT !.phase = "resp"]
      [] ev = "http200" -> [t EXCEPT !.phase = "ok"]
      [] ev = "http4xx" -> [t EXCEPT !.phase = "fail"]
      [] ev = "http501" -> [t EXCEPT !.phase = "fail"]
      [] OTHER          -> IF t.attempt < max_retries
                           THEN [t EXCEPT !.attempt = @ + 1, !.phase = "req"]
                           ELSE [t EXCEPT !.phase = "fail"]

\* A single _patch_note call, from its first attempt to its return value
\* (one call per run); call_log lists what happened to its attempts.
PatchCall ==
    /\ patch_call = NoItem
    /\ \E nid \in write_pool :
           patch_call' = [t |-> NewPatch(1, nid, SendDirection(WriterRole), <<>>), log |-> <<>>]
    /\ UNCHANGED <<lockVars, handlerVars, shakeVars, idleVars, deltaVars, workerVars,
                   duplexVars, loopVars, runVars, rel_log, parse_call,
                   poolVars, senderVars, patchVars,
                   feedVars, pollVars, inboxVars, tunnelVars, envVars>>

PatchStep ==
    /\ patch_call # NoItem
    /\ patch_call.t.phase \in {"req", "resp"}
    /\ \E ev \in PatchEvents(patch_call.t) :
           patch_call' = [t |-> PatchNext(patch_call.t, ev), log |-> Append(patch_call.log, ev)]
    /\ UNCHANGED <<lockVars, handlerVars, shakeVars, idleVars, deltaVars, workerVars,
                   duplexVars, loopVars, runVars, rel_log, parse_call,
                   poolVars, senderVars, patchVars,
                   feedVars, pollVars, inboxVars, tunnelVars, envVars>>

PatchSpec == WriterInit /\ [][PatchCall \/ PatchStep]_vars

\* The delta the service records for an applied PATCH.
\* tag names the PATCH attempt that produced it (history only).
Change(t) == [note |-> t.note, title |-> t.title, snippet |-> t.items,
              tag |-> <<t.id, t.attempt>>]

\* The service's list of applied PATCHes (history only).  It is kept when
\* both endpoints run; with one endpoint nothing reads it.
Recorded(w, c) == IF endpoints = {WriterRole, ReaderRole} THEN Append(w, c) ELSE w

IsClear(c) == c.title = "" /\ c.snippet = <<>>

\* The pools of an endpoint.  The notes of the model are the writer's write
\* pool and the reader's read pool; the other pool is not written to.
WritePoolOf(role) == IF role = WriterRole THEN write_pool ELSE {}
ReadPoolOf(role) == IF role = ReaderRole THEN read_pool ELSE {}

\* Whether _polling_loop of the endpoint acts on a change: an update with
\* empty title and snippet of a note of its write pool is released; an
\* update with a title and a snippet of a note of its read pool is
\* submitted to _process_pool; every other change is skipped.
Handles(role, c) ==
    IF IsClear(c) THEN c.note \in WritePoolOf(role)
    ELSE c.note \in ReadPoolOf(role) /\ c.title # "" /\ c.snippet # <<>>

\* The service applies a PATCH: the change shows up in the next page of
\* each endpoint that polls.
Deliver(feed, c, role) ==
    IF role \in endpoints /\ Handles(role, c) THEN Append(feed, c) ELSE feed

\* A do_send that releases the note whatever _patch_note returned.
ReleasesAfterAny(phase) == phase \in {"ok", "fail"}

\* do_send after _patch_note: if ok, log; else _release_note(note_id).
ReleasesAfter(phase) == phase = "fail"

\* A step of a do_send closure; on failure do_send releases the note.
DoSendStep ==
    \E t \in send_tasks : \E ev \in PatchEvents(t) :
        LET t2 == PatchNext(t, ev)
            pool == ReleaseNote(free_notes, busy_notes, t.note) IN
        /\ IsFault(ev) => faults < MaxFaults
        /\ faults' = IF IsFault(ev) THEN faults + 1 ELSE faults
        /\ w_feed' = IF ev = "apply" THEN Deliver(w_feed, Change(t), WriterRole) ELSE w_feed
        /\ r_feed' = IF ev = "apply" THEN Deliver(r_feed, Change(t), ReaderRole) ELSE r_feed
        /\ send_tasks' = IF t2.phase \in {"ok", "fail"}
                         THEN send_tasks \ {t}
                         ELSE (send_tasks \ {t}) \cup {t2}
        /\ free_notes' = IF ReleasesAfter(t2.phase) THEN pool.free ELSE free_notes
        /\ busy_notes' = IF ReleasesAfter(t2.phase) THEN pool.busy ELSE busy_notes
        /\ released' = IF ReleasesAfter(t2.phase) THEN released \cup {"fail"} ELSE released
        /\ outcomes' = IF t2.phase \in {"ok", "fail"}
                       THEN Append(outcomes, [id |-> t.id, note |-> t.note,
                                              ok |-> (t2.phase = "ok")])
                       ELSE outcomes
        /\ writes' = IF ev = "apply" THEN Recorded(writes, Change(t)) ELSE writes
        /\ UNCHANGED <<processed, auxVars, senderVars, clear_tasks, endpoints, pollVars,
                       inboxVars,
                       tunnelVars, put_log, peer_writes, now>>

\* A step of a clear submitted by _clear_async; its result is ignored.
ClearStep ==
    \E t \in clear_tasks : \E ev \in PatchEvents(t) :
        LET t2 == PatchNext(t, ev) IN
        /\ IsFault(ev) => faults < MaxFaults
        /\ faults' = IF IsFault(ev) THEN faults + 1 ELSE faults
        /\ w_feed' = IF ev = "apply" THEN Deliver(w_feed, Change(t), WriterRole) ELSE w_feed
        /\ r_feed' = IF ev = "apply" THEN Deliver(r_feed, Change(t), ReaderRole) ELSE r_feed
        /\ clear_tasks' = IF t2.phase \in {"ok", "fail"}
                          THEN clear_tasks \ {t}
                          ELSE (clear_tasks \ {t}) \cup {t2}
        /\ writes' = IF ev = "apply" THEN Recorded(writes, Change(t)) ELSE writes
        /\ UNCHANGED <<auxVars, poolVars, senderVars, send_tasks, endpoints, pollVars, inboxVars,
                       tunnelVars, put_log, released, peer_writes, now, outcomes, processed>>

(***************************************************************************)
(* Receiver (polling) thread.                                              *)
(***************************************************************************)
\* The pool after the loop over a page on the writer: every change with
\* empty title and snippet whose record_id is in write_pool is released.
RECURSIVE PoolAfterPage(_, _)
PoolAfterPage(pool, page) ==
    IF page = <<>> THEN pool
    ELSE LET c == Head(page) IN
         PoolAfterPage(IF IsClear(c) /\ c.note \in write_pool
                       THEN ReleaseNote(pool.free, pool.busy, c.note)
                       ELSE pool,
                       Tail(page))

\* One iteration of _polling_loop on the writer with a page it acts on.
WriterPoll ==
    /\ ReceiverRuns
    /\ w_feed # <<>>
    /\ LET pool == PoolAfterPage([free |-> free_notes, busy |-> busy_notes], w_feed) IN
        /\ free_notes' = pool.free
        /\ busy_notes' = pool.busy
    /\ w_feed' = <<>>
    /\ released' = released \cup {"clear"}
    /\ UNCHANGED <<histVars, auxVars, senderVars, patchVars, r_feed, endpoints, pollVars,
                   inboxVars,
                   tunnelVars, put_log, peer_writes, now, outcomes>>

\* A receiver loop that skips the release of a cleared note.
HandleChangeSkips(pool, c) == pool

\* The body of the loop over a page for one change, on the writer: a change
\* with empty title and snippet whose record_id is in write_pool is released.
HandleChange(pool, c) ==
    IF IsClear(c) /\ c.note \in write_pool
    THEN ReleaseNote(pool.free, pool.busy, c.note)
    ELSE pool

\* The writer's receiver loop, step by step.  PollFetch: base_rev is read
\* and _get_deltas returns the page of changes after it.
PollFetch ==
    /\ ReceiverRuns
    /\ w_pc = "poll"
    /\ w_feed # <<>>
    /\ w_pc' = "page"
    /\ w_page' = w_feed
    /\ w_handled' = <<>>
    /\ UNCHANGED <<handlerVars, shakeVars, idleVars, deltaVars, workerVars, duplexVars,
                   callVars, runVars, poolVars, senderVars, patchVars,
                   feedVars, pollVars,
                   inboxVars, tunnelVars, envVars>>

\* PollHandle: the loop body for the next change of the page.  freed records
\* whether the note is in _free_notes when the body is left.
PollHandle ==
    /\ ReceiverRuns
    /\ w_pc = "page"
    /\ w_page # <<>>
    /\ LET c == Head(w_page)
           pool == HandleChange([free |-> free_notes, busy |-> busy_notes], c) IN
        /\ free_notes' = pool.free
        /\ busy_notes' = pool.busy
        /\ w_handled' = Append(w_handled, [change |-> c, freed |-> c.note \in pool.free])
        /\ released' = IF IsClear(c) /\ c.note \in write_pool
                        THEN released \cup {"clear"} ELSE released
    /\ w_page' = Tail(w_page)
    /\ UNCHANGED <<histVars, handlerVars, shakeVars, idleVars, deltaVars, workerVars,
                   duplexVars, w_pc, callVars, runVars, senderVars,
                   patchVars, feedVars, pollVars,
                   inboxVars, tunnelVars, put_log, peer_writes, now, outcomes>>

\* PollStoreRev: the loop over the page is over; last_revision = new_rev, so
\* the next poll asks for the changes after this page.
PollStoreRev ==
    /\ ReceiverRuns
    /\ w_pc = "page"
    /\ w_page = <<>>
    /\ w_pc' = "poll"
    /\ w_feed' = SubSeq(w_feed, Len(w_handled) + 1, Len(w_feed))
    /\ UNCHANGED <<handlerVars, shakeVars, idleVars, deltaVars, workerVars, duplexVars, w_page,
                   w_handled, callVars, runVars, poolVars,
                   senderVars, patchVars,
                   r_feed, endpoints, pollVars, inboxVars, tunnelVars, envVars>>

(***************************************************************************)
(* Exceptions in the two loops, and stop().                                *)
(***************************************************************************)
\* A handler that lets the exception end the loop.
CaughtEndsLoop(loop, running) == running \ {loop}

\* except Exception as e: log, time.sleep(1); the while loop goes on.  The
\* result is the set of loops that run after the handler.
Caught(loop, running) == running

\* _fire_send acquires a note and _send_pool.submit raises; the exception
\* leaves _fire_send and the drain loop and is caught at the end of the
\* iteration of _sender_loop: the statements after the call (batch = [],
\* batch.append of the overflowing item) are skipped and the note stays busy.
DispatchRaises(running) ==
    /\ SenderRuns
    /\ TriesAcquire(s_pc)
    /\ \E nid \in free_notes :
        LET pool == GetFreeNote(free_notes, busy_notes, nid) IN
        /\ free_notes' = pool.free
        /\ busy_notes' = pool.busy
    /\ s_pc' = "drain"
    /\ pending' = NoItem
    /\ alive' = running
    /\ UNCHANGED <<handlerVars, shakeVars, idleVars, deltaVars, workerVars, duplexVars,
                   batch_queue, batch, batch_chars, dispatched,
                   patchVars, feedVars, pollVars,
                   inboxVars, tunnelVars, envVars, loopVars, callVars, stop_flag>>

\* submit fails while the endpoint runs (the pool cannot start a thread).
FireSendFails ==
    /\ ~stop_flag
    /\ Len(errors) < MaxErrors
    /\ errors' = Append(errors, "sender")
    /\ DispatchRaises(Caught("sender", alive))

\* submit after stop(): the pool is shut down and refuses the closure.  The
\* handler is followed by the test of the flag, which ends the loop.
FireSendRefused ==
    /\ stop_flag
    /\ errors' = errors
    /\ DispatchRaises(Caught("sender", alive) \ {"sender"})

\* A malformed item of the page raises inside the loop over the page; the
\* handler of _polling_loop catches it.  last_revision is not stored, so the
\* next poll fetches the page again.  (A failed poll makes _get_deltas return
\* None and the loop sleeps and polls again, which changes nothing.)
PollError ==
    /\ ReceiverRuns
    /\ w_pc = "page"
    /\ Len(errors) < MaxErrors
    /\ errors' = Append(errors, "receiver")
    /\ w_pc' = "poll"
    /\ w_page' = <<>>
    /\ alive' = Caught("receiver", alive)
    /\ UNCHANGED <<handlerVars, shakeVars, idleVars, deltaVars, workerVars, duplexVars,
                   w_handled, callVars, stop_flag, poolVars,
                   senderVars, patchVars, feedVars,
                   pollVars, inboxVars, tunnelVars, envVars>>

\* stop(): _stop_event.set(), then both pools shut down without waiting.
Stop ==
    /\ ~stop_flag
    /\ stop_flag' = TRUE
    /\ UNCHANGED <<handlerVars, shakeVars, idleVars, deltaVars, workerVars, duplexVars, alive,
                   errors, loopVars, callVars, poolVars,
                   senderVars, patchVars,
                   feedVars, pollVars, inboxVars, tunnelVars, envVars>>

\* while not self._stop_event.is_set() of _sender_loop: tested between
\* iterations, not inside _fire_send.
SenderExit ==
    /\ stop_flag
    /\ SenderRuns
    /\ s_pc = "drain"
    /\ alive' = alive \ {"sender"}
    /\ UNCHANGED <<handlerVars, shakeVars, idleVars, deltaVars, workerVars, duplexVars,
                   stop_flag, errors, loopVars, callVars, poolVars,
                   senderVars, patchVars,
                   feedVars, pollVars, inboxVars, tunnelVars, envVars>>

\* while not self._stop_event.is_set() of _polling_loop.
ReceiverExit ==
    /\ stop_flag
    /\ ReceiverRuns
    /\ w_pc = "poll"
    /\ alive' = alive \ {"receiver"}
    /\ UNCHANGED <<handlerVars, shakeVars, idleVars, deltaVars, workerVars, duplexVars,
                   stop_flag, errors, loopVars, callVars, poolVars,
                   senderVars, patchVars,
                   feedVars, pollVars, inboxVars, tunnelVars, envVars>>

\* The _process_batch calls the reader submits for a page.
Submitted(page) ==
    {[rev |-> page[x].tag, note |-> page[x].note, title |-> page[x].title,
      items |-> page[x].snippet, i |-> 1, asm |-> NoItem] : x \in DOMAIN page}

\* One iteration of _polling_loop on the reader with a page it acts on.
ReaderPoll ==
    /\ r_feed # <<>>
    /\ proc_tasks' = proc_tasks \cup Submitted(r_feed)
    /\ r_feed' = <<>>
    /\ UNCHANGED <<auxVars, poolVars, senderVars, patchVars, w_feed, endpoints, inboxVars,
                   tunnelVars, envVars>>

(***************************************************************************)
(* Inbox.                                                                  *)
(***************************************************************************)
MapGet(m, k) == IF k \in DOMAIN m THEN m[k] ELSE <<>>
MapPut(m, k, v) == [x \in DOMAIN m \cup {k} |-> IF x = k THEN v ELSE m[x]]
MapDel(m, k) == [x \in DOMAIN m \ {k} |-> m[x]]

InboxKey(rid, mtype) == <<rid, mtype>>

\* The completeness test of _store_entry for total > 1.
AllPresent(chunks, total) ==
    /\ Cardinality(DOMAIN chunks) = total
    /\ \A i \in 1..total : i \in DOMAIN chunks

\* An assembly that takes the chunks from the last index down.
ChunksToAssembleReversed(chunks, total) == [i \in 1..total |-> chunks[total + 1 - i].data]

\* chunks_to_assemble: the payloads in index order 1..total.
ChunksToAssemble(chunks, total) == [i \in 1..total |-> chunks[i].data]

\* The part of _store_entry done under inbox_lock.  inb holds inbox_data,
\* inbox_complete and pending_requests; asm is chunks_to_assemble (NoItem
\* when nothing is to be assembled).
StoreEntryOneShot(inb, parsed, data) ==
    LET key == InboxKey(parsed.request_id, parsed.type) IN
    [inb EXCEPT !.complete = MapPut(@, key, data),
                !.pending = IF parsed.type = TYPE_RQST
                            THEN Append(@, <<parsed.request_id, data>>) ELSE @]

StoreEntry(inb, parsed, data) ==
    LET key == InboxKey(parsed.request_id, parsed.type) IN
    IF parsed.type = TYPE_DATA
    THEN [inb EXCEPT !.data = MapPut(@, key, MapPut(MapGet(@, key), parsed.chunk, data))]
    ELSE IF parsed.total <= 1
    THEN StoreEntryOneShot(inb, parsed, data)
    ELSE LET chunks == MapPut(MapGet(inb.data, key), parsed.chunk,
                              [total |-> parsed.total, data |-> data]) IN
         IF AllPresent(chunks, parsed.total)
         THEN [inb EXCEPT !.data = MapDel(@, key),
                          !.asm = [key |-> key,
                                   parts |-> ChunksToAssemble(chunks, parsed.total)]]
         ELSE [inb EXCEPT !.data = MapPut(@, key, chunks)]

InboxNow == [data |-> inbox_data, complete |-> inbox_complete,
             pending |-> pending_requests, asm |-> NoItem]

\* The tail of _store_entry, outside the lock: join the copied chunks
\* (b''.join) and publish the result.
PublishAssembled(inb) ==
    IF inb.asm = NoItem THEN inb
    ELSE LET assembled == Concat(inb.asm.parts) IN
         [inb EXCEPT !.complete = MapPut(@, inb.asm.key, assembled),
                     !.pending = IF inb.asm.key[2] = TYPE_RQST
                                 THEN Append(@, <<inb.asm.key[1], assembled>>) ELSE @,
                     !.asm = NoItem]

\* A test that lets every direction pass.
ForReaderAny(item) == TRUE

\* The direction test _process_batch applies to the title of a line.
ForReader(item) == item.title.direction = RecvDirection(ReaderRole)

\* TITLE_RE on a title built from its fields: the direction is < or >, chunk
\* and total have exactly five digits, the type has four characters.
TitleFieldsMatch(t) ==
    /\ t.direction \in {"<", ">"}
    /\ Fmt05dLen(t.chunk) = NUM_LEN
    /\ Fmt05dLen(t.total) = NUM_LEN
    /\ Len(t.type) = TYPE_LEN

\* A character outside the base65536 alphabet stands for no bytes;
\* base65536.decode raises on it.
BadChar == <<>>
DecodeRaises(text) == \E i \in DOMAIN text : Len(text[i]) = Len(BadChar)

\* _decrypt_data with encryption enabled: AESGCM.decrypt raises when the tag
\* of the payload does not verify.  A line of an encrypting peer carries in
\* gcm whether its tag verifies under the reader's key; the lines built by
\* QueueEntry are those of the configuration without encryption.
DecryptRaises(item) == "gcm" \in DOMAIN item /\ item.gcm # "ok"

\* The line reaches _store_entry: its title parses and carries
\* recv_direction, and neither decode nor decrypt raises.
Accepted(item) ==
    /\ TitleFieldsMatch(item.title)
    /\ ForReader(item)
    /\ ~DecodeRaises(item.data)
    /\ ~DecryptRaises(item)

\* One line of _process_batch: a line whose title does not parse or carries
\* another direction is skipped (continue); an exception of decode or
\* decrypt is caught inside the loop body and counted.
StoreLine(inb, item) ==
    IF ~TitleFieldsMatch(item.title) \/ ~ForReader(item) THEN inb
    ELSE IF DecodeRaises(item.data) \/ DecryptRaises(item) THEN inb
    ELSE StoreEntry(inb, item.title, Base65536Decode(item.data))

\* The (parsed, data) pairs _process_batch hands to _store_entry for a batch.
Handed(items) ==
    LET mine == SelectSeq(items, Accepted) IN
    [i \in DOMAIN mine |-> [title |-> mine[i].title, data |-> Base65536Decode(mine[i].data)]]

\* A loop whose try block encloses the whole loop: the first line that
\* raises ends it.
RECURSIVE StoreAllUntilError(_, _)
StoreAllUntilError(inb, items) ==
    IF items = <<>> THEN inb
    ELSE IF /\ TitleFieldsMatch(Head(items).title) /\ ForReader(Head(items))
            /\ (DecodeRaises(Head(items).data) \/ DecryptRaises(Head(items)))
         THEN inb
         ELSE StoreAllUntilError(PublishAssembled(StoreLine(inb, Head(items))), Tail(items))

\* The loop of _process_batch over all lines.
RECURSIVE StoreAll(_, _)
StoreAll(inb, items) ==
    IF items = <<>> THEN inb
    ELSE StoreAll(PublishAssembled(StoreLine(inb, Head(items))), Tail(items))

\* A whole _process_batch call as one step: the direction check of the
\* outer title, the loop over the lines, then _clear_async.
ProcessBatch ==
    \E t \in proc_tasks :
        /\ t.i = 1 /\ t.asm = NoItem
        /\ proc_tasks' = proc_tasks \ {t}
        /\ IF t.title # RecvDirection(ReaderRole)
           THEN UNCHANGED <<inbox_data, inbox_complete, pending_requests, stored,
                            clear_tasks, processed>>
           ELSE LET inb == StoreAll(InboxNow, t.items) IN
                /\ inbox_data' = inb.data
                /\ inbox_complete' = inb.complete
                /\ pending_requests' = inb.pending
                /\ stored' = stored \o Handed(t.items)
                /\ processed' = processed \cup {t.rev}
                /\ clear_tasks' = clear_tasks \cup {NewPatch(t.rev, t.note, "", <<>>)}
        /\ UNCHANGED <<auxVars, poolVars, senderVars, send_tasks, faults, feedVars,
                       taken, tunnelVars, put_log, released, peer_writes, now, outcomes, writes>>

\* _process_batch, one line at a time.  A batch whose outer title does not
\* start with recv_direction is dropped without a clear; a line whose title
\* carries another direction is skipped.
ProcStore ==
    \E t \in proc_tasks :
        /\ t.asm = NoItem
        /\ t.i <= Len(t.items)
        /\ IF t.title # RecvDirection(ReaderRole)
           THEN /\ proc_tasks' = proc_tasks \ {t}
                /\ UNCHANGED inboxVars
           ELSE LET item == t.items[t.i]
                    inb == StoreLine(InboxNow, item) IN
                /\ inbox_data' = inb.data
                /\ inbox_complete' = inb.complete
                /\ pending_requests' = inb.pending
                /\ stored' = stored \o Handed(<<item>>)
                /\ proc_tasks' = (proc_tasks \ {t}) \cup
                       {IF inb.asm = NoItem THEN [t EXCEPT !.i = @ + 1]
                        ELSE [t EXCEPT !.asm = inb.asm]}
                /\ UNCHANGED taken
        /\ UNCHANGED <<auxVars, poolVars, senderVars, patchVars, feedVars, tunnelVars, envVars>>

\* The tail of _store_entry, outside the lock: join the copied chunks and
\* publish the result.
ProcPublish ==
    \E t \in proc_tasks :
        /\ t.asm # NoItem
        /\ LET inb == PublishAssembled([InboxNow EXCEPT !.asm = t.asm]) IN
            /\ inbox_complete' = inb.complete
            /\ pending_requests' = inb.pending
        /\ proc_tasks' = (proc_tasks \ {t}) \cup {[t EXCEPT !.asm = NoItem, !.i = @ + 1]}
        /\ UNCHANGED <<auxVars, poolVars, senderVars, patchVars, feedVars, inbox_data, stored,
                       taken, tunnelVars, envVars>>

\* The end of _process_batch: _clear_async submits _patch_note(note, "", "").
ProcClear ==
    \E t \in proc_tasks :
        /\ t.asm = NoItem
        /\ t.i > Len(t.items)
        /\ proc_tasks' = proc_tasks \ {t}
        /\ clear_tasks' = clear_tasks \cup {NewPatch(t.rev, t.note, "", <<>>)}
        /\ processed' = processed \cup {t.rev}
        /\ UNCHANGED <<auxVars, poolVars, senderVars, send_tasks, faults, feedVars,
                       inboxVars, tunnelVars, put_log, released, peer_writes, now, outcomes,
                       writes>>

\* _clear_async once stop() has shut _send_pool down: submit raises
\* RuntimeError inside the worker of _process_pool, which keeps running the
\* calls submitted before shutdown(wait=False); the call ends without a
\* clear.
ProcClearRefused ==
    /\ stop_flag
    /\ \E t \in proc_tasks :
        /\ t.asm = NoItem
        /\ t.i > Len(t.items)
        /\ proc_tasks' = proc_tasks \ {t}
        /\ processed' = processed \cup {t.rev}
    /\ UNCHANGED <<auxVars, poolVars, senderVars, patchVars, feedVars, inboxVars, tunnelVars,
                   put_log, released, peer_writes, now, outcomes, writes>>

\* _clear_async while _send_pool accepts work.
ProcClearRunning == ~stop_flag /\ ProcClear

\* An iteration of _polling_loop, entered while the stop flag is unset.
ReaderPollRunning == ~stop_flag /\ ReaderPoll

\* head_chunk.
HeadChunk(rid, n) ==
    /\ InboxKey(rid, TYPE_DATA) \in DOMAIN inbox_data
    /\ n \in DOMAIN inbox_data[InboxKey(rid, TYPE_DATA)]

\* A get_chunk that returns the payload and leaves it in inbox_data.
GetChunkKeeps(d, rid, n) ==
    LET key == InboxKey(rid, TYPE_DATA) IN
    IF key \in DOMAIN d /\ n \in DOMAIN d[key]
    THEN [ret |-> d[key][n], data |-> d]
    ELSE [ret |-> NoData, data |-> d]

\* get_chunk: the returned payload and inbox_data afterwards.
GetChunk(d, rid, n) ==
    LET key == InboxKey(rid, TYPE_DATA) IN
    IF key \in DOMAIN d /\ n \in DOMAIN d[key]
    THEN [ret |-> d[key][n],
          data |-> IF DOMAIN d[key] = {n} THEN MapDel(d, key)
                   ELSE MapPut(d, key, MapDel(d[key], n))]
    ELSE [ret |-> NoData, data |-> d]

\* The message type get() and head() look up, by role.
RecvType(role) == IF role = "client" THEN TYPE_RESP ELSE TYPE_RQST

\* head(path).
HeadMsg(rid) == InboxKey(rid, RecvType(ReaderRole)) \in DOMAIN inbox_complete

\* A get that reads the message and leaves it in inbox_complete.
GetMsgKeeps(c, rid) ==
    LET key == InboxKey(rid, RecvType(ReaderRole)) IN
    IF key \in DOMAIN c THEN [ret |-> c[key], complete |-> c]
    ELSE [ret |-> NoData, complete |-> c]

\* get(path): inbox_complete.pop(key, None); the returned value and the map afterwards.
GetMsg(c, rid) ==
    LET key == InboxKey(rid, RecvType(ReaderRole)) IN
    IF key \in DOMAIN c THEN [ret |-> c[key], complete |-> MapDel(c, key)]
    ELSE [ret |-> NoData, complete |-> c]

\* A consumer calls head(path) and then get(path), whatever head returned.
Get ==
    \E rid \in {RID2, RID3} :
        /\ Len(taken) < MaxGets
        /\ LET r == GetMsg(inbox_complete, rid) IN
            /\ inbox_complete' = r.complete
            /\ taken' = Append(taken, [request_id |-> rid, head |-> HeadMsg(rid),
                                       data |-> r.ret])
        /\ UNCHANGED <<auxVars, poolVars, senderVars, patchVars, feedVars, pollVars, inbox_data,
                       pending_requests, stored, tunnelVars, envVars>>

\* get_pending_request: pending_requests.get_nowait().
GetPendingRequest ==
    /\ pending_requests # <<>>
    /\ pending_requests' = Tail(pending_requests)
    /\ UNCHANGED <<auxVars, poolVars, senderVars, patchVars, feedVars, pollVars, inbox_data,
                   inbox_complete, stored, taken, tunnelVars, envVars>>

(***************************************************************************)
(* Consuming tunnel loop (the inbound half of _tunnel_loop / handle).      *)
(***************************************************************************)
\* A loop that asks again for the chunk it received last.
ExpectedChunkStuck(recv) == IF recv = 0 THEN 1 ELSE recv

\* expected_chunk = last_chunk_received + 1.
ExpectedChunk(recv) == recv + 1

\* Python truthiness of the value get_chunk returned.
Truthy(data) == data # NoData /\ data # <<>>

\* if head_chunk(expected): data = get_chunk(expected); if data: sendall(data);
\* last_chunk_received = expected.
TunnelRecv ==
    LET expected == ExpectedChunk(received) IN
    /\ HeadChunk(RID, expected)
    /\ LET r == GetChunk(inbox_data, RID, expected) IN
        /\ inbox_data' = r.data
        /\ IF Truthy(r.ret)
           THEN /\ written' = Append(written, [chunk |-> expected, data |-> r.ret])
                /\ received' = expected
           ELSE UNCHANGED <<written, received>>
    /\ UNCHANGED <<auxVars, poolVars, senderVars, patchVars, feedVars, pollVars, inbox_complete,
                   pending_requests, stored, taken, chunk_id_sent, envVars>>

(***************************************************************************)
(* Tunnel set-up: the client handler (TunnelHandler.handle,                *)
(* Socks5Handler._handle_connect), the worker (server main loop,           *)
(* RequestHandler.process_request, ServerTunnelHandler._tunnel_worker) and *)
(* the two directions of the transport between them.                       *)
(***************************************************************************)
\* The JSON bodies of the handshake; a payload is a sequence of one such
\* object (json.dumps on the way in, json.loads on the way out).
ConnectRequest == <<[method |-> "CONNECT"]>>
ReadyResponse == <<[status |-> 200]>>
ErrorResponse == <<[status |-> 502]>>

\* A ready test that accepts every response.
TunnelReadyAny(content) == TRUE

\* response_data.get('status') == 200.
TunnelReady(content) == content[1].status = 200

\* What the front-end tells its client when the set-up window ends without
\* a ready response: send_error(504) or SOCKS5 reply 4.
FailureReply(kind) == IF kind = "connect" THEN "504" ELSE "reply4"

\* get(path) on the client: the key is built with the client's type.
ClientGet(c, rid) ==
    LET key == InboxKey(rid, RecvType(WriterRole)) IN
    IF key \in DOMAIN c THEN [ret |-> c[key], complete |-> MapDel(c, key)]
    ELSE [ret |-> NoData, complete |-> c]

\* The front-end opens a tunnel: storage.put of the CONNECT request, then
\* the wait for the confirmation starts.
ClientConnect ==
    /\ h_pc = "idle"
    /\ \E kind \in {"connect", "socks5"} : t_kind' = kind
    /\ batch_queue' = batch_queue \o Put(WriterRole, RID, ConnectRequest, 1).queued
    /\ h_pc' = "wait"
    /\ hs_log' = Append(hs_log, "c_rqst")
    /\ UNCHANGED <<h_reply, k_pc, k_sent, k_queue, c_inbox, delivered,
                   t_pc, t_buf, t_recvs, flushes, loopVars, callVars, runVars, poolVars,
                   s_pc, batch, batch_chars, pending, dispatched, patchVars, feedVars,
                   pollVars, inboxVars, tunnelVars, envVars,
                   duplexVars, workerVars, deltaVars, idleVars>>

\* An iteration of the wait loop in which head() is true: get(), json.loads,
\* the status test.  A response that is not ready is consumed and the loop
\* goes on.  The log records which response was taken.
ClientTakeResp ==
    /\ h_pc = "wait"
    /\ InboxKey(RID, RecvType(WriterRole)) \in DOMAIN c_inbox.complete
    /\ LET r == ClientGet(c_inbox.complete, RID) IN
        /\ c_inbox' = [c_inbox EXCEPT !.complete = r.complete]
        /\ h_pc' = IF TunnelReady(r.ret) THEN "ready" ELSE "wait"
        /\ hs_log' = Append(hs_log, IF r.ret = ReadyResponse THEN "c_resp200"
                                     ELSE "c_respbad")
    /\ UNCHANGED <<h_reply, k_pc, k_sent, k_queue, delivered, handlerVars, duplexVars,
                   workerVars, deltaVars, idleVars,
                   loopVars, callVars, runVars, poolVars, senderVars, patchVars, feedVars,
                   pollVars, inboxVars, tunnelVars, envVars>>

\* 30 s have passed in the wait loop without a ready response: the handler
\* reports the failure and returns.
ClientTimeout ==
    /\ h_pc = "wait"
    /\ h_pc' = "failed"
    /\ h_reply' = FailureReply(t_kind)
    /\ hs_log' = Append(hs_log, "c_fail")
    /\ UNCHANGED <<k_pc, k_sent, k_queue, c_inbox, delivered, handlerVars, duplexVars,
                   workerVars, deltaVars, idleVars,
                   loopVars, callVars, runVars, poolVars, senderVars, patchVars, feedVars,
                   pollVars, inboxVars, tunnelVars, envVars>>

\* The client's tunnel loop emits a chunk.
ClientPutChunk ==
    /\ h_pc = "ready"
    /\ TunnelPut

\* The worker's main loop: get_pending_request(), process_request in a new
\* thread, which hands a CONNECT request to _tunnel_worker.
WorkerDequeue ==
    /\ k_pc \in {"idle", "failed", "closed"}
    /\ pending_requests # <<>>
    /\ pending_requests' = Tail(pending_requests)
    /\ k_pc' = IF Head(pending_requests)[2][1].method = "CONNECT" THEN "connecting" ELSE k_pc
    /\ hs_log' = Append(hs_log, "k_rqst")
    /\ UNCHANGED <<h_pc, h_reply, k_sent, k_queue, c_inbox, delivered, handlerVars, duplexVars,
                   workerVars, deltaVars, idleVars,
                   loopVars, callVars, runVars, poolVars, senderVars, patchVars, feedVars,
                   pollVars, inbox_data, inbox_complete, stored, taken, tunnelVars, envVars>>

\* _tunnel_worker: connect() succeeds, the ready response is put and the
\* tunnel loop is entered.
WorkerConnected ==
    /\ k_pc = "connecting"
    /\ k_pc' = "loop"
    /\ k_sent' = 0
    /\ k_queue' = k_queue \o Put(ReaderRole, RID, ReadyResponse, 1).queued
    /\ hs_log' = hs_log \o <<"k_connected", "k_resp">>
    /\ UNCHANGED <<h_pc, h_reply, c_inbox, delivered, handlerVars, duplexVars, workerVars,
                   deltaVars, idleVars,
                   loopVars, callVars, runVars, poolVars, senderVars, patchVars, feedVars,
                   pollVars, inboxVars, tunnelVars, envVars>>

\* _tunnel_worker: connect() raises; the handler logs and the thread ends
\* without a response.
WorkerConnectFails ==
    /\ k_pc = "connecting"
    /\ k_pc' = "failed"
    /\ hs_log' = Append(hs_log, "k_error")
    /\ UNCHANGED <<h_pc, h_reply, k_sent, k_queue, c_inbox, delivered, handlerVars, duplexVars,
                   workerVars, deltaVars, idleVars,
                   loopVars, callVars, runVars, poolVars, senderVars, patchVars, feedVars,
                   pollVars, inboxVars, tunnelVars, envVars>>

\* The worker's tunnel loop emits a chunk.
WorkerPutChunk ==
    /\ k_pc = "loop"
    /\ k_sent < MaxChunks
    /\ k_sent' = NextChunkId(k_sent)
    /\ k_queue' = Append(k_queue,
           PutChunk(ReaderRole, RID, NextChunkId(k_sent), ChunkData(NextChunkId(k_sent))))
    /\ hs_log' = Append(hs_log, "k_data")
    /\ UNCHANGED <<h_pc, h_reply, k_pc, c_inbox, delivered, handlerVars, duplexVars, workerVars,
                   deltaVars, idleVars,
                   loopVars, callVars, runVars, poolVars, senderVars, patchVars, feedVars,
                   pollVars, inboxVars, tunnelVars, envVars>>

\* The worker's tunnel loop ends.
WorkerClose ==
    /\ k_pc = "loop"
    /\ k_pc' = "closed"
    /\ UNCHANGED <<h_pc, h_reply, k_sent, k_queue, c_inbox, delivered, hs_log, handlerVars,
                   duplexVars, workerVars, deltaVars, idleVars,
                   loopVars, callVars, runVars, poolVars, senderVars, patchVars, feedVars,
                   pollVars, inboxVars, tunnelVars, envVars>>

\* The transport from the client to the worker, as the worker sees it: a
\* unit the client has queued reaches _store_entry of the worker, at any
\* time, in any order and possibly more than once.
DeliverToWorker ==
    \E i \in DOMAIN batch_queue :
        LET inb == PublishAssembled(StoreLine(InboxNow, batch_queue[i])) IN
        /\ delivered < MaxDeliveries
        /\ delivered' = delivered + 1
        /\ inbox_data' = inb.data
        /\ inbox_complete' = inb.complete
        /\ pending_requests' = inb.pending
        /\ stored' = stored \o Handed(<<batch_queue[i]>>)
        /\ UNCHANGED <<h_pc, h_reply, k_pc, k_sent, k_queue, c_inbox, hs_log, handlerVars,
                       duplexVars, workerVars, deltaVars, idleVars,
                       loopVars, callVars, runVars, poolVars, senderVars, patchVars, feedVars,
                       pollVars, taken, tunnelVars, envVars>>

\* The units the worker's side may hold for the client: what the worker
\* queued, and a response of an arbitrary peer that is not ready.
ForClient(item) == item.title.direction = RecvDirection(WriterRole)

\* The transport from the worker to the client.
DeliverToClient ==
    \E u \in {k_queue[i] : i \in DOMAIN k_queue}
             \cup {QueueEntry(ReaderRole, RID, 1, 1, TYPE_RESP, ErrorResponse, 1)} :
        /\ ForClient(u)
        /\ delivered < MaxDeliveries
        /\ delivered' = delivered + 1
        /\ c_inbox' = PublishAssembled(StoreEntry(c_inbox, u.title, Base65536Decode(u.data)))
        /\ UNCHANGED <<h_pc, h_reply, k_pc, k_sent, k_queue, hs_log, handlerVars, duplexVars,
                       workerVars, deltaVars, idleVars,
                       loopVars, callVars, runVars, poolVars, senderVars, patchVars, feedVars,
                       pollVars, inboxVars, tunnelVars, envVars>>

HandshakeNext ==
    \/ ClientConnect
    \/ ClientTakeResp
    \/ ClientTimeout
    \/ ClientPutChunk
    \/ WorkerDequeue
    \/ WorkerConnected
    \/ WorkerConnectFails
    \/ WorkerPutChunk
    \/ WorkerClose
    \/ DeliverToWorker
    \/ DeliverToClient

HandshakeSpec == Init /\ [][HandshakeNext]_vars

(***************************************************************************)
(* The three mutexes.  Every routine that takes a lock is written down as  *)
(* the sequence of its steps, in source order, on the path that executes   *)
(* the most statements; line is the source line of the step.               *)
(***************************************************************************)
Locks == {"pool", "inbox", "revision"}

St(op, arg, line) == [op |-> op, arg |-> arg, line |-> line]

\* _init_revision.
InitRevisionCode ==
    <<St("io", "http_get", 170), St("acquire", "revision", 172),
      St("internal", "last_revision", 173), St("release", "revision", 173),
      St("log", "stdout", 174)>>

\* head(path) and get(path).
HeadGetCode ==
    <<St("acquire", "inbox", 605), St("internal", "inbox_complete", 606),
      St("release", "inbox", 606), St("acquire", "inbox", 598),
      St("internal", "inbox_complete", 599), St("release", "inbox", 599)>>

\* _get_free_note and _release_note.
GetFreeNoteCode ==
    <<St("acquire", "pool", 197), St("internal", "free_notes", 199),
      St("release", "pool", 201)>>
ReleaseNoteCode ==
    <<St("acquire", "pool", 206), St("internal", "free_notes", 208),
      St("release", "pool", 208)>>

\* _cleanup_stale: the log line is printed inside the with block.
CleanupStaleCode ==
    <<St("acquire", "inbox", 387), St("internal", "inbox_data", 388),
      St("internal", "inbox_data", 399), St("log", "stdout", 400),
      St("release", "inbox", 400)>>

\* An iteration of _polling_loop that runs the reaper, releases a cleared
\* note and submits a batch.
PollingLoopCode ==
    CleanupStaleCode
    \o <<St("acquire", "revision", 412), St("internal", "last_revision", 413),
         St("release", "revision", 413), St("io", "http_get", 415)>>
    \o ReleaseNoteCode
    \o <<St("log", "stdout", 446), St("internal", "submit", 456),
         St("acquire", "revision", 458), St("internal", "last_revision", 459),
         St("release", "revision", 459)>>

\* _fire_send.
FireSendCode ==
    GetFreeNoteCode \o <<St("log", "stdout", 357), St("internal", "submit", 378)>>

\* do_send on its failure path, and the _patch_note call of a clear.
DoSendCode ==
    <<St("io", "http_patch", 238)>> \o ReleaseNoteCode \o <<St("log", "stdout", 376)>>
ClearCode == <<St("io", "http_patch", 238)>>

\* A _store_entry that joins the chunks before it leaves the first with block.
StoreEntryCodeJoinLocked ==
    <<St("acquire", "inbox", 528), St("internal", "inbox_data", 542),
      St("join", "chunks", 551), St("release", "inbox", 548),
      St("acquire", "inbox", 552), St("internal", "inbox_complete", 553),
      St("release", "inbox", 553), St("internal", "pending_requests", 555)>>

\* _store_entry for the last chunk of a multi-chunk message.
StoreEntryCode ==
    <<St("acquire", "inbox", 528), St("internal", "inbox_data", 542),
      St("release", "inbox", 548), St("join", "chunks", 551),
      St("acquire", "inbox", 552), St("internal", "inbox_complete", 553),
      St("release", "inbox", 553), St("internal", "pending_requests", 555)>>

\* _process_batch for one line, then _clear_async.
ProcessBatchCode ==
    <<St("log", "stdout", 478), St("internal", "decode", 497)>>
    \o StoreEntryCode
    \o <<St("log", "stdout", 511), St("internal", "submit", 517)>>

\* An iteration of a tunnel loop: head_chunk, get_chunk, sendall, recv,
\* put_chunk.
TunnelIterationCode ==
    <<St("acquire", "inbox", 581), St("internal", "inbox_data", 582),
      St("release", "inbox", 582), St("acquire", "inbox", 571),
      St("internal", "inbox_data", 573), St("release", "inbox", 576),
      St("io", "socket", 108), St("io", "socket", 127),
      St("internal", "batch_queue", 564)>>

\* The threads of an endpoint and what each of them runs, over and over.
Threads == {"main", "receiver", "sender", "send_pool", "process_pool", "tunnel"}

ThreadCode(th) ==
    CASE th = "main" -> InitRevisionCode \o HeadGetCode
      [] th = "receiver" -> PollingLoopCode
      [] th = "sender" -> FireSendCode
      [] th = "send_pool" -> DoSendCode \o ClearCode
      [] th = "process_pool" -> ProcessBatchCode
      [] th = "tunnel" -> TunnelIterationCode

\* The step a thread executes next, and the locks it holds.
NextStep(th) == ThreadCode(th)[th_pc[th]]
Held(th) == {l \in Locks : lock_owner[l] = th}

\* A thread executes its next step; threading.Lock blocks while another
\* thread holds the lock.
LockStep(th) ==
    LET st == NextStep(th) IN
    /\ st.op = "acquire" => lock_owner[st.arg] = "none"
    /\ lock_owner' = CASE st.op = "acquire" -> [lock_owner EXCEPT ![st.arg] = th]
                       [] st.op = "release" -> [lock_owner EXCEPT ![st.arg] = "none"]
                       [] OTHER -> lock_owner
    /\ th_pc' = [th_pc EXCEPT ![th] = IF @ = Len(ThreadCode(th)) THEN 1 ELSE @ + 1]
    /\ UNCHANGED <<rel_log, parse_call, patch_call, loopVars, runVars, handlerVars, shakeVars,
                   idleVars, deltaVars, workerVars, duplexVars,
                   poolVars, senderVars, patchVars, feedVars, pollVars, inboxVars, tunnelVars,
                   envVars>>

LockNext == \E th \in Threads : LockStep(th)

LockSpec == Init /\ [][LockNext]_vars

(***************************************************************************)
(* Both directions at once.  Each endpoint is a writer of its own pool and *)
(* a reader of the peer's; PATCH calls do not fail, so a call is one step. *)
(***************************************************************************)
Roles == {"client", "server"}

Peer(r) == IF r = "client" THEN "server" ELSE "client"

otherVars == <<baseVars, workerVars, deltaVars, idleVars>>

\* A hand-over to _send_pool that first waits for a note of the own pool,
\* whatever the closure is.
NeedsNoteAlways(kind) == TRUE

\* Which hand-over to _send_pool waits for a note of the own write pool:
\* _fire_send does (_get_free_note in its wait loop), _clear_async does not.
NeedsNote(kind) == kind = "send"

\* The timeout trigger of _sender_loop with a batch to dispatch.
DxTrigger(r) ==
    /\ d_pc[r] = "drain"
    /\ d_left[r] > 0
    /\ d_pc' = [d_pc EXCEPT ![r] = "fire"]
    /\ UNCHANGED <<otherVars, d_free, d_busy, d_left, d_send, d_feed, d_proc>>

\* _fire_send while no note is free: sleep 0.1 s and ask again.
DxBlock(r) ==
    /\ d_pc[r] = "fire"
    /\ d_free[r] = {}
    /\ d_pc' = [d_pc EXCEPT ![r] = "wait"]
    /\ UNCHANGED <<otherVars, d_free, d_busy, d_left, d_send, d_feed, d_proc>>

\* _fire_send once _get_free_note() returns a note: submit do_send.
DxAcquire(r) ==
    /\ TriesAcquire(d_pc[r])
    /\ \E nid \in d_free[r] :
        LET pool == GetFreeNote(d_free[r], d_busy[r], nid) IN
        /\ d_free' = [d_free EXCEPT ![r] = pool.free]
        /\ d_busy' = [d_busy EXCEPT ![r] = pool.busy]
        /\ d_send' = [d_send EXCEPT ![r] = @ \cup {[kind |-> "send", owner |-> r,
                                                    note |-> nid]}]
    /\ d_left' = [d_left EXCEPT ![r] = @ - 1]
    /\ d_pc' = [d_pc EXCEPT ![r] = "drain"]
    /\ UNCHANGED <<otherVars, d_feed, d_proc>>

\* Whether the polling loop of endpoint x acts on a change: a clear of a
\* note of its write pool, or a filled note of its read pool.  Any other
\* change is skipped by the loop and is left out of its feed.
DxHandles(x, c) == IF c.clear THEN c.owner = x ELSE c.owner = Peer(x)

\* A closure of _send_pool runs: _patch_note writes the batch or the clear,
\* and the service lists the change in the deltas.
DxPatch(r) ==
    /\ \E t \in d_send[r] :
        LET c == [owner |-> t.owner, note |-> t.note, clear |-> (t.kind = "clear")] IN
        /\ d_send' = [d_send EXCEPT ![r] = @ \ {t}]
        /\ d_feed' = [x \in Roles |->
                         IF DxHandles(x, c) THEN Append(d_feed[x], c) ELSE d_feed[x]]
    /\ UNCHANGED <<otherVars, d_free, d_busy, d_pc, d_left, d_proc>>

\* _polling_loop handles one change: a clear of a note of the own write
\* pool is released, a filled note of the read pool goes to _process_pool,
\* everything else is skipped.
DxPoll(r) ==
    /\ d_feed[r] # <<>>
    /\ LET c == Head(d_feed[r])
           pool == ReleaseNote(d_free[r], d_busy[r], c.note) IN
        /\ d_feed' = [d_feed EXCEPT ![r] = Tail(@)]
        /\ d_free' = IF c.clear /\ c.owner = r
                     THEN [d_free EXCEPT ![r] = pool.free] ELSE d_free
        /\ d_busy' = IF c.clear /\ c.owner = r
                     THEN [d_busy EXCEPT ![r] = pool.busy] ELSE d_busy
        /\ d_proc' = IF ~c.clear /\ c.owner = Peer(r)
                     THEN [d_proc EXCEPT ![r] = @ \cup {[owner |-> c.owner, note |-> c.note]}]
                     ELSE d_proc
    /\ UNCHANGED <<otherVars, d_pc, d_left, d_send>>

\* _process_batch ends with _clear_async: the clear of the peer's note goes
\* to the own _send_pool.
DxProcess(r) ==
    /\ NeedsNote("clear") => d_free[r] # {}
    /\ \E t \in d_proc[r] :
        /\ d_proc' = [d_proc EXCEPT ![r] = @ \ {t}]
        /\ d_send' = [d_send EXCEPT ![r] = @ \cup {[kind |-> "clear", owner |-> t.owner,
                                                    note |-> t.note]}]
    /\ UNCHANGED <<otherVars, d_free, d_busy, d_pc, d_left, d_feed>>

DuplexNext ==
    \E r \in Roles :
        \/ DxTrigger(r)
        \/ DxBlock(r)
        \/ DxAcquire(r)
        \/ DxPatch(r)
        \/ DxPoll(r)
        \/ DxProcess(r)

DuplexSpec == Init /\ [][DuplexNext]_vars

\* Every thread of both endpoints keeps running: the wait loop of
\* _fire_send asks for a note every 0.1 s, the polling loops poll, and the
\* pools run what is submitted to them.
FairDuplexSpec ==
    /\ DuplexSpec
    /\ \A r \in Roles :
        /\ WF_vars(DxTrigger(r)) /\ WF_vars(DxBlock(r)) /\ WF_vars(DxAcquire(r))
        /\ WF_vars(DxPatch(r)) /\ WF_vars(DxPoll(r)) /\ WF_vars(DxProcess(r))

\* A client front-end puts an HTTP request on its queue; every request has
\* a request id of its own.
PutRequest ==
    /\ Len(put_log) < MaxPuts
    /\ LET r == Put(WriterRole, [ts |-> 0, rnd |-> 2 + Len(put_log)], <<SmallBytes>>,
                    SmallBytes) IN
        /\ batch_queue' = batch_queue \o r.queued
        /\ put_log' = Append(put_log, [chars |-> EncodedLen(SmallBytes),
                                       raised |-> r.raised,
                                       queued |-> Len(r.queued),
                                       reply |-> DoRequestReply(r)])
    /\ UNCHANGED <<histVars, auxVars, poolVars, s_pc, batch, batch_chars, pending, dispatched,
                   patchVars, feedVars, pollVars, inboxVars, tunnelVars, released,
                   peer_writes, now, outcomes>>

\* One iteration of the worker's main loop that finds a pending request:
\* get_pending_request(), then a handler thread is started for it.
WorkerMain ==
    /\ pending_requests # <<>>
    /\ pending_requests' = Tail(pending_requests)
    /\ executed' = Append(executed, Head(pending_requests)[1])
    /\ UNCHANGED <<loopVars, callVars, runVars, handlerVars, shakeVars, idleVars, deltaVars,
                   duplexVars, poolVars,
                   senderVars, patchVars, feedVars, pollVars, inbox_data, inbox_complete,
                   stored, taken, tunnelVars, envVars>>

(***************************************************************************)
(* RequestSpec: requests from the client's put() to the worker's main      *)
(* loop, with PATCH faults.                                                *)
(***************************************************************************)
RequestNext ==
    \/ PutRequest
    \/ SenderTake
    \/ SenderTimeout
    \/ FireSendBlock
    \/ FireSendAcquire
    \/ DoSendStep
    \/ WriterPoll
    \/ ReaderPoll
    \/ ProcessBatch
    \/ ClearStep
    \/ WorkerMain

RequestSpec == Init /\ [][RequestNext]_vars

(***************************************************************************)
(* The receiver loop over arbitrary deltas (_polling_loop, _get_deltas).   *)
(* free_notes / busy_notes are the write pool of the polling endpoint.     *)
(***************************************************************************)
\* Record ids: the notes of the own write pool, a note of the read pool, a
\* note of neither pool, and a record whose id is not of the form
\* \d+_\d+_\d+.
OwnNote(n) == [form |-> "note", pool |-> "own", n |-> n]
PeerNote == [form |-> "note", pool |-> "peer", n |-> 1]
ForeignNote == [form |-> "note", pool |-> "none", n |-> 0]
OtherRecord == [form |-> "other", pool |-> "none", n |-> 0]

\* NOTE_ID_RE.match(record_id).
NoteIdMatches(id) == id.form = "note"

InWritePool(id) == id.pool = "own"
InReadPool(id) == id.pool = "peer"

DeltaOf(type, id, t, s) ==
    [change_type |-> type, record_id |-> id, title |-> t, snippet |-> s]

\* The changes the service may list: clears of the notes of the own pool,
\* filled and cleared notes of either pool and of neither, a note of the
\* read pool with a title only, a record that is no note, and changes of
\* another type on pool notes.
DeltaChanges ==
    {DeltaOf("update", OwnNote(n), "", "") : n \in write_pool}
    \cup {DeltaOf("update", OwnNote(1), "<", "x"),
          DeltaOf("update", PeerNote, ">", "x"),
          DeltaOf("update", PeerNote, "", ""),
          DeltaOf("update", PeerNote, ">", ""),
          DeltaOf("update", ForeignNote, ">", "x"),
          DeltaOf("update", ForeignNote, "", ""),
          DeltaOf("update", OtherRecord, ">", "x"),
          DeltaOf("delete", PeerNote, ">", "x"),
          DeltaOf("delete", OwnNote(1), "", "")}

\* A loop body that tests no pool membership.
DispositionAnyPool(c) ==
    IF c.change_type # "update" \/ ~NoteIdMatches(c.record_id) THEN "skip"
    ELSE IF c.title = "" /\ c.snippet = "" THEN "release"
    ELSE IF c.title # "" /\ c.snippet # "" THEN "submit"
    ELSE "skip"

\* The body of the loop over the changes of a page: what is done with one
\* change.
Disposition(c) ==
    IF c.change_type # "update" THEN "skip"
    ELSE IF ~NoteIdMatches(c.record_id) THEN "skip"
    ELSE IF c.title = "" /\ c.snippet = ""
    THEN IF InWritePool(c.record_id) THEN "release" ELSE "skip"
    ELSE IF ~InReadPool(c.record_id) THEN "skip"
    ELSE IF c.title # "" /\ c.snippet # "" THEN "submit"
    ELSE "skip"

DeltaInit ==
    /\ EndpointStart({ReaderRole})
    /\ free_notes \in SUBSET write_pool
    /\ busy_notes = write_pool \ free_notes

\* The service records a change (a PATCH of some client of the account).
DeltaWrite ==
    /\ Len(deltas) < MaxDeltas
    /\ \E c \in DeltaChanges : deltas' = Append(deltas, c)
    /\ UNCHANGED <<baseVars, duplexVars, workerVars, idleVars, last_revision, rv_pc, new_rev,
                   rv_page,
                   rv_log>>

\* base_rev = last_revision; _get_deltas(base_rev) returns the changes after
\* base_rev and the revision they lead to.
RvFetch ==
    /\ rv_pc = "poll"
    /\ Len(deltas) > last_revision
    /\ new_rev' = Len(deltas)
    /\ rv_page' = [i \in 1..(Len(deltas) - last_revision) |-> last_revision + i]
    /\ rv_pc' = "page"
    /\ UNCHANGED <<baseVars, duplexVars, workerVars, idleVars, deltas, last_revision, rv_log>>

\* _get_deltas catches the error of the GET and returns None: sleep, continue.
RvFetchFails ==
    /\ rv_pc = "poll"
    /\ Len(errors) < MaxErrors
    /\ errors' = Append(errors, "poll")
    /\ UNCHANGED <<poolVars, senderVars, patchVars, feedVars, pollVars, inboxVars, tunnelVars,
                   envVars, loopVars, callVars, stop_flag, alive, handlerVars, shakeVars, idleVars,
                   duplexVars, workerVars, deltaVars>>

\* The loop body for the next change of the page.
RvHandle ==
    /\ rv_pc = "page"
    /\ rv_page # <<>>
    /\ LET c == deltas[Head(rv_page)]
           what == Disposition(c)
           pool == ReleaseNote(free_notes, busy_notes, c.record_id.n) IN
        /\ free_notes' = IF what = "release" THEN pool.free ELSE free_notes
        /\ busy_notes' = IF what = "release" THEN pool.busy ELSE busy_notes
        /\ rv_log' = Append(rv_log, [rev |-> Head(rv_page), what |-> what])
    /\ rv_page' = Tail(rv_page)
    /\ UNCHANGED <<senderVars, patchVars, feedVars, pollVars, inboxVars, tunnelVars, envVars,
                   loopVars, callVars, runVars, handlerVars, shakeVars, idleVars,
                   duplexVars, workerVars,
                   deltas, last_revision, rv_pc, new_rev>>

\* The loop over the page is over: last_revision = new_rev.
RvStoreRev ==
    /\ rv_pc = "page"
    /\ rv_page = <<>>
    /\ last_revision' = new_rev
    /\ rv_pc' = "poll"
    /\ UNCHANGED <<baseVars, duplexVars, workerVars, idleVars, deltas, new_rev, rv_page, rv_log>>

\* An exception inside the iteration (a malformed item, a failed submit):
\* the handler logs it and sleeps, the rest of the page and the store of the
\* revision are skipped.
RvRaise ==
    /\ rv_pc = "page"
    /\ Len(errors) < MaxErrors
    /\ errors' = Append(errors, "receiver")
    /\ rv_pc' = "poll"
    /\ rv_page' = <<>>
    /\ UNCHANGED <<poolVars, senderVars, patchVars, feedVars, pollVars, inboxVars, tunnelVars,
                   envVars, loopVars, callVars, stop_flag, alive, handlerVars, shakeVars, idleVars,
                   duplexVars, workerVars, deltas, last_revision, new_rev, rv_log>>

DeltaNext ==
    \/ DeltaWrite
    \/ RvFetch
    \/ RvFetchFails
    \/ RvHandle
    \/ RvStoreRev
    \/ RvRaise

DeltaSpec == DeltaInit /\ [][DeltaNext]_vars

\* The receiver loop on runs without failed polls and without exceptions.
DeltaPlainNext ==
    \/ DeltaWrite
    \/ RvFetch
    \/ RvHandle
    \/ RvStoreRev

DeltaPlainSpec == DeltaInit /\ [][DeltaPlainNext]_vars

(***************************************************************************)
(* The two tunnel loops of one request_id and their idle timeouts          *)
(* (TunnelHandler.handle, ServerTunnelHandler._tunnel_loop).  Time is      *)
(* counted in ticks; tn_idle is now - last_activity_time, kept up to one   *)
(* tick past tunnel_idle_timeout.                                          *)
(***************************************************************************)
\* The test of the loop: time.time() - last_activity_time > tunnel_idle_timeout.
\* A test that compares with last_data_time would also count the flushes.
IdleExpired(r) == tn_idle[r] > IdleTicks

\* The statement after the loop: a non-empty buffer is put as the last chunk.
\* The peer's inbox takes it whether or not the peer's loop still runs.
AfterLoop(r) ==
    /\ tn_pc' = [tn_pc EXCEPT ![r] = "closed"]
    /\ tn_in' = IF tn_buf[r] /\ tn_pc[Peer(r)] = "loop"
                THEN [tn_in EXCEPT ![Peer(r)] = @ + 1] ELSE tn_in
    /\ tn_buf' = [tn_buf EXCEPT ![r] = FALSE]

\* recv returns data on the local (target) socket: the buffer takes it,
\* after an overflow flush when it would grow past chunk_size, and
\* last_activity_time is set to now.
TnRecv(r) ==
    /\ tn_pc[r] = "loop"
    /\ \E overflow \in {b \in BOOLEAN : b => tn_buf[r]} :
        /\ overflow => tn_in[Peer(r)] < MaxInFlight
        /\ tn_in' = IF overflow /\ tn_pc[Peer(r)] = "loop"
                    THEN [tn_in EXCEPT ![Peer(r)] = @ + 1] ELSE tn_in
    /\ tn_buf' = [tn_buf EXCEPT ![r] = TRUE]
    /\ tn_idle' = [tn_idle EXCEPT ![r] = 0]
    /\ UNCHANGED <<baseVars, workerVars, deltaVars, duplexVars, tn_pc>>

\* chunk_idle_timeout has passed since the last read: the buffer is put.
\* last_activity_time is not touched.
TnIdleFlush(r) ==
    /\ tn_pc[r] = "loop"
    /\ tn_buf[r]
    /\ tn_in[Peer(r)] < MaxInFlight
    /\ tn_in' = IF tn_pc[Peer(r)] = "loop"
                THEN [tn_in EXCEPT ![Peer(r)] = @ + 1] ELSE tn_in
    /\ tn_buf' = [tn_buf EXCEPT ![r] = FALSE]
    /\ UNCHANGED <<baseVars, workerVars, deltaVars, duplexVars, tn_pc, tn_idle>>

\* head_chunk finds the expected chunk: it is taken and written to the
\* local socket, and last_activity_time is set to now.
TnDeliver(r) ==
    /\ tn_pc[r] = "loop"
    /\ tn_in[r] > 0
    /\ tn_in' = [tn_in EXCEPT ![r] = @ - 1]
    /\ tn_idle' = [tn_idle EXCEPT ![r] = 0]
    /\ UNCHANGED <<baseVars, workerVars, deltaVars, duplexVars, tn_pc, tn_buf>>

\* recv returns b'' or raises: break, then the statement after the loop.
TnEof(r) ==
    /\ tn_pc[r] = "loop"
    /\ AfterLoop(r)
    /\ UNCHANGED <<baseVars, workerVars, deltaVars, duplexVars, tn_idle>>

\* The idle test at the end of an iteration succeeds: break, then the
\* statement after the loop.
TnTimeout(r) ==
    /\ tn_pc[r] = "loop"
    /\ IdleExpired(r)
    /\ AfterLoop(r)
    /\ UNCHANGED <<baseVars, workerVars, deltaVars, duplexVars, tn_idle>>

\* A tick of the clock: every running loop has been idle one tick longer.
TnTick ==
    /\ \E r \in Roles : tn_pc[r] = "loop" /\ tn_idle[r] <= IdleTicks
    /\ tn_idle' = [r \in Roles |->
                      IF tn_pc[r] = "loop" /\ tn_idle[r] <= IdleTicks
                      THEN tn_idle[r] + 1 ELSE tn_idle[r]]
    /\ UNCHANGED <<baseVars, workerVars, deltaVars, duplexVars, tn_pc, tn_buf, tn_in>>

IdleNext ==
    \/ TnTick
    \/ \E r \in Roles :
        \/ TnRecv(r)
        \/ TnIdleFlush(r)
        \/ TnDeliver(r)
        \/ TnEof(r)
        \/ TnTimeout(r)

IdleSpec == Init /\ [][IdleNext]_vars

\* Time passes and each loop keeps iterating: it flushes, takes chunks and
\* tests its idle timeout.  Nothing is assumed about the sockets.
FairIdleSpec ==
    /\ IdleSpec
    /\ WF_vars(TnTick)
    /\ \A r \in Roles :
        WF_vars(TnIdleFlush(r)) /\ WF_vars(TnDeliver(r)) /\ WF_vars(TnTimeout(r))

\* The same with sockets that deliver nothing once the peer's loop has left.
TnRecvWhilePeerRuns(r) == tn_pc[Peer(r)] = "loop" /\ TnRecv(r)

QuietIdleNext ==
    \/ TnTick
    \/ \E r \in Roles :
        \/ TnRecvWhilePeerRuns(r)
        \/ TnIdleFlush(r)
        \/ TnDeliver(r)
        \/ TnEof(r)
        \/ TnTimeout(r)

FairQuietIdleSpec ==
    /\ Init /\ [][QuietIdleNext]_vars
    /\ WF_vars(TnTick)
    /\ \A r \in Roles :
        WF_vars(TnIdleFlush(r)) /\ WF_vars(TnDeliver(r)) /\ WF_vars(TnTimeout(r))

(***************************************************************************)
(* Stale reaper and clock.                                                 *)
(***************************************************************************)
\* A reaper that also removes a key that is exactly STALE_TIMEOUT_MS old.
StaleKeysInclusive(d, now_ms) ==
    {key \in DOMAIN d : now_ms - key[1].ts >= STALE_TIMEOUT_MS}

\* The keys _cleanup_stale removes: request_id[:13] is older than
\* STALE_TIMEOUT_MS at the clock reading now_ms.
StaleKeys(d, now_ms) == {key \in DOMAIN d : now_ms - key[1].ts > STALE_TIMEOUT_MS}

\* _cleanup_stale, called by _polling_loop once 60 s have passed since the
\* last call.
CleanupStale ==
    /\ StaleKeys(inbox_data, NowMs) # {}
    /\ inbox_data' = [key \in DOMAIN inbox_data \ StaleKeys(inbox_data, NowMs) |->
                         inbox_data[key]]
    /\ UNCHANGED <<auxVars, poolVars, senderVars, patchVars, feedVars, pollVars, inbox_complete,
                   pending_requests, stored, taken, tunnelVars, envVars>>

\* Time passes.
Tick ==
    /\ now < MaxTicks
    /\ now' = now + 1
    /\ UNCHANGED <<histVars, auxVars, poolVars, senderVars, patchVars, feedVars, pollVars,
                   inboxVars,
                   tunnelVars, put_log, released, peer_writes, outcomes>>

(***************************************************************************)
(* Environments of the partial specifications.                             *)
(***************************************************************************)
\* An arbitrary peer clears a note of the writer's pool, whatever state
\* that note is in.
PeerClear ==
    \E nid \in write_pool :
        /\ peer_writes < MaxPeerWrites
        /\ peer_writes' = peer_writes + 1
        /\ w_feed' = Deliver(w_feed, [note |-> nid, title |-> "", snippet |-> <<>>,
                                      tag |-> <<0, 0>>], WriterRole)
        /\ UNCHANGED <<histVars, auxVars, poolVars, senderVars, patchVars, r_feed, endpoints,
                       pollVars,
                       inboxVars, tunnelVars, put_log, released, now, outcomes>>

\* The DATA units an arbitrary peer may write for the tunnel RID: chunks
\* 1..MaxChunks and a chunk 1 with an empty payload.
PeerChunks ==
    {QueueEntry(WriterRole, RID, k, 0, TYPE_DATA, ChunkData(k), 1) : k \in 1..MaxChunks}
    \cup {QueueEntry(WriterRole, RID, 1, 0, TYPE_DATA, <<>>, 0)}

\* The message units an arbitrary peer may write: one-shot requests RID2
\* (total 1 and total 0), chunks of the two-chunk request RID3 (one of them
\* with an index past total), and a unit that carries the other direction.
PeerMsgs ==
    {QueueEntry(WriterRole, RID2, 1, 1, TYPE_RQST, <<21, 22>>, 2),
     QueueEntry(WriterRole, RID2, 0, 0, TYPE_RQST, <<23>>, 1)}
    \cup {QueueEntry(WriterRole, RID3, k, 2, TYPE_RQST, <<30 + k>>, 1) : k \in 1..3}
    \cup {QueueEntry(ReaderRole, RID2, 1, 1, TYPE_RESP, <<24>>, 1)}

\* An arbitrary peer writes one unit into a note of the reader's read pool.
PeerWrite(u) ==
    /\ peer_writes' = peer_writes + 1
    /\ r_feed' = Deliver(r_feed, [note |-> 1 + (peer_writes % NumNotes),
                                  title |-> SendDirection(WriterRole),
                                  snippet |-> <<u>>,
                                  tag |-> <<0, peer_writes>>], ReaderRole)
    /\ UNCHANGED <<histVars, auxVars, poolVars, senderVars, patchVars, w_feed, endpoints,
                   pollVars,
                   inboxVars, tunnelVars, put_log, released, now, outcomes>>

\* Request ids of different age: RID is created at clock 0, RIDEdge exactly
\* STALE_TIMEOUT_MS before the first tick, RIDLate at the first tick.
RIDEdge == [ts |-> TickMs - STALE_TIMEOUT_MS, rnd |-> 5]
RIDLate == [ts |-> TickMs, rnd |-> 4]

\* The DATA units of tunnels of different age an arbitrary peer may write.
PeerAgedChunks ==
    {QueueEntry(WriterRole, rid, 1, 0, TYPE_DATA, ChunkData(1), 1) :
        rid \in {RID, RIDEdge, RIDLate}}

PeerWriteAged == \E u \in PeerAgedChunks : peer_writes < MaxPeerWrites /\ PeerWrite(u)

PeerWriteChunk == \E u \in PeerChunks : peer_writes < MaxPeerWrites /\ PeerWrite(u)

PeerWriteMsg == \E u \in PeerMsgs : peer_writes < MaxPeerMsgs /\ PeerWrite(u)

(***************************************************************************)
(* PoolSpec: the writer endpoint against an arbitrary peer.                *)
(***************************************************************************)
PoolNext ==
    \/ TunnelPut
    \/ SenderTake
    \/ SenderTimeout
    \/ FireSendBlock
    \/ FireSendAcquire
    \/ DoSendStep
    \/ WriterPoll
    \/ PeerClear

PoolSpec == WriterInit /\ [][PoolNext]_vars

\* The sender thread keeps running: a _fire_send that can acquire a note
\* eventually does.
FairPoolSpec == PoolSpec /\ WF_vars(FireSendAcquire) /\ WF_vars(WriterPoll)

(***************************************************************************)
(* ErrSpec: the two loops of the writer endpoint against an arbitrary      *)
(* peer.  The receiver loop is taken one statement at a time, so that the  *)
(* sender thread runs between the handling of a change and the store of    *)
(* the revision; iterations of both loops may raise; stop() is never       *)
(* called.  The closures handed to _send_pool run in the pool's threads    *)
(* and touch neither loop; they are not run here.                          *)
(***************************************************************************)
ErrNext ==
    \/ TunnelPut
    \/ SenderTake
    \/ SenderTimeout
    \/ FireSendBlock
    \/ FireSendAcquire
    \/ FireSendFails
    \/ PollFetch
    \/ PollHandle
    \/ PollStoreRev
    \/ PollError
    \/ PeerClear

ErrSpec == WriterInit /\ [][ErrNext]_vars

(***************************************************************************)
(* LoopSpec: the writer endpoint against an arbitrary peer, with           *)
(* exceptions inside the iterations of its two loops and with stop().      *)
(***************************************************************************)
LoopNext ==
    \/ TunnelPut
    \/ SenderTake
    \/ SenderTimeout
    \/ FireSendBlock
    \/ FireSendAcquire
    \/ FireSendFails
    \/ FireSendRefused
    \/ DoSendStep
    \/ PollFetch
    \/ PollHandle
    \/ PollStoreRev
    \/ PollError
    \/ PeerClear
    \/ Stop
    \/ SenderExit
    \/ ReceiverExit

LoopSpec == WriterInit /\ [][LoopNext]_vars

\* Both loops and the closures in _send_pool keep running: each loop tests
\* the stop flag at the head of every iteration, the wait loop of
\* _fire_send polls the pool every 0.1 s, and closures already submitted
\* run to their end after shutdown(wait=False).
FairLoopSpec ==
    /\ LoopSpec
    /\ WF_vars(SenderTake) /\ WF_vars(SenderTimeout)
    /\ WF_vars(FireSendAcquire) /\ WF_vars(FireSendRefused)
    /\ WF_vars(DoSendStep)
    /\ WF_vars(PollFetch) /\ WF_vars(PollHandle) /\ WF_vars(PollStoreRev)
    /\ WF_vars(SenderExit) /\ WF_vars(ReceiverExit)

(***************************************************************************)
(* Spec: both endpoints end to end; one tunnel streams DATA chunks from    *)
(* the writer to the reader.                                               *)
(***************************************************************************)
Next ==
    \/ TunnelPut
    \/ SenderTake
    \/ SenderTimeout
    \/ FireSendBlock
    \/ FireSendAcquire
    \/ DoSendStep
    \/ WriterPoll
    \/ ReaderPoll
    \/ ProcessBatch
    \/ ClearStep
    \/ TunnelRecv
    \/ CleanupStale
    \/ Tick

Spec == Init /\ [][Next]_vars

\* The sender, the pools, both polling threads and the consuming tunnel
\* loop keep running; the clock and the reaper are not forced.
FairSpec ==
    /\ Spec
    /\ WF_vars(SenderTake) /\ WF_vars(SenderTimeout) /\ WF_vars(FireSendAcquire)
    /\ WF_vars(DoSendStep) /\ WF_vars(ClearStep)
    /\ WF_vars(WriterPoll) /\ WF_vars(ReaderPoll) /\ WF_vars(ProcessBatch)
    /\ WF_vars(TunnelRecv)

(***************************************************************************)
(* SenderSpec: one-shot put() calls of several sizes through the sender.   *)
(***************************************************************************)
SenderNext ==
    \/ PutMsg
    \/ SenderTake
    \/ SenderTimeout
    \/ FireSendBlock
    \/ FireSendAcquire
    \/ DoSendStep
    \/ WriterPoll
    \/ PeerClear

SenderSpec == WriterInit /\ [][SenderNext]_vars

(***************************************************************************)
(* SenderErrSpec: SenderSpec with dispatches that raise inside _fire_send  *)
(* while the endpoint runs.                                                *)
(***************************************************************************)
SenderErrNext ==
    \/ PutMsg
    \/ SenderTake
    \/ SenderTimeout
    \/ FireSendBlock
    \/ FireSendAcquire
    \/ FireSendFails
    \/ DoSendStep
    \/ WriterPoll
    \/ PeerClear

SenderErrSpec == WriterInit /\ [][SenderErrNext]_vars

(***************************************************************************)
(* BatchSpec: the producers and the sender thread on their own.  The       *)
(* closures handed to _send_pool are not run; a busy note becomes free     *)
(* when the receiver loop sees a clear of the peer.                        *)
(***************************************************************************)
BatchNext ==
    \/ PutMsg
    \/ SenderTake
    \/ SenderTimeout
    \/ FireSendBlock
    \/ FireSendAcquire
    \/ WriterPoll
    \/ PeerClear

BatchSpec == WriterInit /\ [][BatchNext]_vars

(***************************************************************************)
(* BacklogSpec: producers, the sender thread and the do_send closures      *)
(* while the peer clears no note.                                          *)
(***************************************************************************)
BacklogNext ==
    \/ PutSmall
    \/ SenderTake
    \/ SenderTimeout
    \/ FireSendBlock
    \/ FireSendAcquire
    \/ DoSendStep

BacklogSpec == WriterInit /\ [][BacklogNext]_vars

(***************************************************************************)
(* ShutdownSpec: the reader endpoint against a peer that writes DATA       *)
(* units, with stop() called at any moment.                                *)
(***************************************************************************)
ShutdownNext ==
    \/ PeerWriteChunk
    \/ ReaderPollRunning
    \/ ProcStore
    \/ ProcClearRunning
    \/ ProcClearRefused
    \/ Stop

ShutdownSpec == ReaderInit /\ [][ShutdownNext]_vars

(***************************************************************************)
(* ChunkInboxSpec: the reader endpoint and the consuming tunnel loop       *)
(* against a peer that writes DATA units in any order.                     *)
(***************************************************************************)
ChunkInboxNext ==
    \/ PeerWriteChunk
    \/ ReaderPoll
    \/ ProcStore
    \/ ProcClear
    \/ TunnelRecv
    \/ CleanupStale
    \/ Tick

ChunkInboxSpec == ReaderInit /\ [][ChunkInboxNext]_vars

(***************************************************************************)
(* ReaperSpec: the reader endpoint and its reaper against a peer that      *)
(* writes DATA units of tunnels of different age; nobody consumes them.    *)
(***************************************************************************)
ReaperNext ==
    \/ PeerWriteAged
    \/ ReaderPoll
    \/ ProcStore
    \/ ProcClear
    \/ CleanupStale
    \/ Tick

ReaperSpec == ReaderInit /\ [][ReaperNext]_vars

(***************************************************************************)
(* LineSpec: the reader endpoint against a peer whose snippets hold lines  *)
(* that do not parse, do not decode or do not authenticate.                *)
(***************************************************************************)
\* A line as the peer writes it: a unit of QueueEntry with another type text,
\* another encoded text or a GCM tag.
GoodRequest == QueueEntry(WriterRole, RID2, 1, 1, TYPE_RQST, <<21, 22>>, 2)
GoodChunk == QueueEntry(WriterRole, RID, 1, 0, TYPE_DATA, ChunkData(1), 1)
SealedChunk ==
    QueueEntry(WriterRole, RID, 2, 0, TYPE_DATA, ChunkData(2), 1) @@ [gcm |-> "ok"]
BadTitleLine ==
    [GoodRequest EXCEPT !.title = MakeTitle(WriterRole, RID3, 1, 1, "RQ")]
LongChunkLine ==
    [GoodRequest EXCEPT !.title = MakeTitle(WriterRole, RID3, 100000, 0, TYPE_DATA)]
BadEncodingLine ==
    [GoodRequest EXCEPT !.title = MakeTitle(WriterRole, RID3, 1, 1, TYPE_RQST),
                        !.data = <<BadChar>> \o @]
BadTagLine ==
    [title |-> MakeTitle(WriterRole, RID3, 1, 1, TYPE_RQST),
     data |-> Base65536Encode(<<25>>), chars |-> 1, gcm |-> "bad"]

PeerLines ==
    {GoodRequest, GoodChunk, SealedChunk, BadTitleLine, LongChunkLine, BadEncodingLine,
     BadTagLine}

\* An arbitrary peer writes a snippet of three lines into a note of
\* the reader's read pool.
PeerWriteLines ==
    \E l1 \in PeerLines, l2 \in PeerLines, l3 \in PeerLines :
        /\ peer_writes < MaxLineBatches
        /\ peer_writes' = peer_writes + 1
        /\ r_feed' = Deliver(r_feed, [note |-> 1 + (peer_writes % NumNotes),
                                      title |-> SendDirection(WriterRole),
                                      snippet |-> <<l1, l2, l3>>,
                                      tag |-> <<0, peer_writes>>], ReaderRole)
        /\ UNCHANGED <<histVars, auxVars, poolVars, senderVars, patchVars, w_feed, endpoints,
                       pollVars, inboxVars, tunnelVars, put_log, released, now, outcomes>>

LineNext ==
    \/ PeerWriteLines
    \/ ReaderPoll
    \/ ProcessBatch
    \/ ClearStep

LineSpec == ReaderInit /\ [][LineNext]_vars

(***************************************************************************)
(* DirectionSpec: the client writes requests to the worker while another   *)
(* writer puts batches with either marker into the same notes.             *)
(***************************************************************************)
\* Lines of either direction: a request as a client builds it and a
\* request as a worker would build it.
ClientLine == QueueEntry(WriterRole, RID3, 1, 1, TYPE_RQST, <<26>>, 1)
WorkerLine == QueueEntry(ReaderRole, RID, 1, 1, TYPE_RQST, <<27>>, 1)

\* A batch of one line with either marker as its note title appears in a
\* note of the reader's read pool (once per run).
PeerWriteMixed ==
    \E outer \in {SendDirection(WriterRole), SendDirection(ReaderRole)},
       l1 \in {ClientLine, WorkerLine} :
        /\ peer_writes = 0
        /\ peer_writes' = 1
        /\ r_feed' = Deliver(r_feed, [note |-> 1, title |-> outer, snippet |-> <<l1>>,
                                      tag |-> <<0, 0>>], ReaderRole)
        /\ UNCHANGED <<histVars, auxVars, poolVars, senderVars, patchVars, w_feed, endpoints,
                       pollVars, inboxVars, tunnelVars, put_log, released, now, outcomes>>

DirectionNext ==
    \/ PutRequest
    \/ SenderTake
    \/ SenderTimeout
    \/ FireSendBlock
    \/ FireSendAcquire
    \/ DoSendStep
    \/ PeerWriteMixed
    \/ ReaderPoll
    \/ ProcessBatch

DirectionSpec == Init /\ [][DirectionNext]_vars

(***************************************************************************)
(* MsgInboxSpec: the reader endpoint and the consumers of messages         *)
(* against a peer that writes RQST units in any order.                     *)
(***************************************************************************)
MsgInboxNext ==
    \/ PeerWriteMsg
    \/ ReaderPoll
    \/ ProcStore
    \/ ProcPublish
    \/ ProcClear
    \/ Get
    \/ GetPendingRequest
    \/ CleanupStale
    \/ Tick

MsgInboxSpec == ReaderInit /\ [][MsgInboxNext]_vars

(***************************************************************************)
(* Properties.                                                             *)
(***************************************************************************)
\* C1: in every reachable state the writer's free and busy sets are
\* disjoint and together make up exactly its write pool.
C1_PoolPartition ==
    /\ free_notes \cap busy_notes = {}
    /\ free_notes \cup busy_notes = write_pool

\* A note is busy again after both kinds of release have happened.
C1_Witness == released = {"fail", "clear"} /\ busy_notes # {}

\* C2: no two do_send calls that are in progress (first attempt started,
\* last retry not finished) target the same note.
C2_OneWritePerNote ==
    \A t1 \in send_tasks : \A t2 \in send_tasks : t1.note = t2.note => t1 = t2

InFireSend == s_pc \in {"fire", "wait"}

\* C3: while _fire_send finds no free note it submits nothing and keeps
\* batch and the overflowing item; the batch is kept for as long as the
\* call lasts; and the call ends by submitting exactly one do_send whose
\* items are the batch, unit for unit.
C3_BackpressureKeepsBatch ==
    [][/\ (InFireSend /\ free_notes = {}) =>
              /\ InFireSend'
              /\ dispatched' = dispatched
              /\ {t.id : t \in send_tasks'} \subseteq {t.id : t \in send_tasks}
       /\ (InFireSend /\ InFireSend') => (batch' = batch /\ pending' = pending)
       /\ (dispatched' # dispatched) =>
              /\ InFireSend /\ ~InFireSend'
              /\ dispatched' = Append(dispatched, [items |-> batch, waited |-> s_pc = "wait"])
              /\ \E t \in send_tasks' :
                    /\ send_tasks' = send_tasks \cup {t}
                    /\ t.id \notin {t0.id : t0 \in send_tasks}
                    /\ t.items = batch
      ]_vars

\* A dispatch that had to wait for a note has gone through.
C3_Witness == \E i \in DOMAIN dispatched : dispatched[i].waited /\ dispatched[i].items # <<>>

\* C4: a dispatch blocked in _fire_send, once a peer clear of a write-pool
\* note is in the writer's next page or a note is free again, eventually
\* acquires a note and submits its write.
C4_BlockedDispatchProceeds ==
    (s_pc = "wait" /\ (w_feed # <<>> \/ free_notes # {})) ~> (s_pc = "drain")

\* A blocked dispatch has gone through after releases by observed clears only.
C4_Witness ==
    /\ released = {"clear"}
    /\ \E i \in DOMAIN dispatched : dispatched[i].waited
    /\ s_pc = "drain"

\* C5: the snippet of every dispatched batch has at most MAX_SNIPPET_CHARS
\* characters.
C5_SnippetWithinBudget ==
    \A i \in DOMAIN dispatched : SnippetChars(dispatched[i].items) <= MAX_SNIPPET_CHARS

\* C6: a put() whose encoded unit alone exceeds MAX_SNIPPET_CHARS raises,
\* enqueues nothing and is answered 502 by the proxy.
C6_OversizePutFails ==
    \A i \in DOMAIN put_log :
        put_log[i].chars > MAX_SNIPPET_CHARS =>
            put_log[i].raised /\ put_log[i].queued = 0 /\ put_log[i].reply = "502"

\* The DATA units of the tunnel RID handed to _store_entry so far.
StoredChunks(n) ==
    {i \in DOMAIN stored : /\ stored[i].title.request_id = RID
                           /\ stored[i].title.type = TYPE_DATA
                           /\ stored[i].title.chunk = n}

\* C7: what the consuming tunnel loop has written to its socket is the
\* payloads of chunks 1, 2, ..., k in that order, each once, each the
\* payload of a unit that arrived with that index.
C7_ChunksInOrder ==
    /\ received = Len(written)
    /\ \A i \in DOMAIN written :
        /\ written[i].chunk = i
        /\ \E x \in StoredChunks(i) : stored[x].data = written[i].data

\* Chunk 2 arrived before chunk 1, both were written, and a second copy
\* of chunk 1 that arrived later sits in the inbox.
C7_Witness ==
    /\ Len(written) >= 2
    /\ \E x \in StoredChunks(2) : \A y \in StoredChunks(1) : x < y
    /\ HeadChunk(RID, 1)

\* C8: once the producing loop has put chunks 1..MaxChunks, and no PATCH
\* meets a fault, the consuming loop eventually has written all of them.
C8_StreamDelivered ==
    (chunk_id_sent = MaxChunks) ~> (Len(written) = MaxChunks \/ faults > 0)

\* The one-shot units (total <= 1) of RID2 handed to _store_entry so far.
StoredOneShot ==
    {stored[i].data : i \in {j \in DOMAIN stored :
                                /\ stored[j].title.request_id = RID2
                                /\ stored[j].title.type = RecvType(ReaderRole)
                                /\ stored[j].title.total <= 1}}

\* C9: for a one-shot message, head/get see nothing or the whole payload
\* of one unit that arrived; get returns what head announced and removes
\* the message.
C9_OneShotAtomic ==
    /\ [](/\ HeadMsg(RID2) =>
                inbox_complete[InboxKey(RID2, RecvType(ReaderRole))] \in StoredOneShot
          /\ \A i \in DOMAIN taken :
                /\ taken[i].head = (taken[i].data # NoData)
                /\ (taken[i].request_id = RID2 /\ taken[i].head) =>
                       taken[i].data \in StoredOneShot)
    /\ [][taken' # taken =>
             /\ taken' = Append(taken, taken'[Len(taken')])
             /\ LET e == taken'[Len(taken')]
                    key == InboxKey(e.request_id, RecvType(ReaderRole)) IN
                /\ key \notin DOMAIN inbox_complete'
                /\ e.head => (e.data = inbox_complete[key])
         ]_vars

\* A get returned the payload of RID2 and the next get for it returned None.
C9_Witness ==
    \E i \in DOMAIN taken : \E j \in DOMAIN taken :
        /\ i < j
        /\ taken[i].request_id = RID2 /\ taken[i].data = <<21, 22>>
        /\ taken[j].request_id = RID2 /\ taken[j].data = NoData

\* The positions in stored of the chunks of RID3 with index n.
StoredParts(n) ==
    {i \in DOMAIN stored : /\ stored[i].title.request_id = RID3
                           /\ stored[i].title.type = RecvType(ReaderRole)
                           /\ stored[i].title.chunk = n}

\* body is the payloads of chunks 1..total of RID3, each of a unit that
\* arrived, joined in index order.
WholeBody(body, total) ==
    /\ \A n \in 1..total : StoredParts(n) # {}
    /\ \E parts \in [1..total -> DOMAIN stored] :
        /\ \A n \in 1..total : parts[n] \in StoredParts(n)
        /\ body = Concat([n \in 1..total |-> stored[parts[n]].data])

\* C10: a multi-chunk message is in inbox_complete, in pending_requests or
\* returned by get only when chunks with every index 1..total have
\* arrived, and its body is their payloads joined in index order.
C10_MultiChunkAssembly ==
    /\ HeadMsg(RID3) => WholeBody(inbox_complete[InboxKey(RID3, RecvType(ReaderRole))], 2)
    /\ \A i \in DOMAIN pending_requests :
           pending_requests[i][1] = RID3 => WholeBody(pending_requests[i][2], 2)
    /\ \A i \in DOMAIN taken :
           (taken[i].request_id = RID3 /\ taken[i].head) => WholeBody(taken[i].data, 2)

\* The message of RID3 is published after chunk 2 arrived before chunk 1.
C10_Witness ==
    /\ HeadMsg(RID3)
    /\ \E i \in DOMAIN pending_requests : pending_requests[i][1] = RID3
    /\ \E x \in StoredParts(2) : \A y \in StoredParts(1) : x < y

(***************************************************************************)
(* C11: when the writer's receiver loop handles a page holding an update   *)
(* of a write-pool note with empty title and snippet, the note has been    *)
(* put in free by the time the loop stores the page's revision (and so     *)
(* before its next poll): at the store, every such change of the page the  *)
(* revision covers has been handled, and the note was in free when its     *)
(* handling ended.                                                         *)
(***************************************************************************)
C11_ClearFreesBeforeRevision ==
    [][(w_pc = "page" /\ w_pc' = "poll") =>
          \A i \in 1..(Len(w_feed) - Len(w_feed')) :
              (IsClear(w_feed[i]) /\ w_feed[i].note \in write_pool) =>
                  /\ i \in DOMAIN w_handled
                  /\ w_handled[i].change = w_feed[i]
                  /\ w_handled[i].freed]_vars

\* A page with the peer's clear of a note the writer had written has been
\* handled and its revision stored.
C11_Witness ==
    /\ w_pc = "poll"
    /\ dispatched # <<>>
    /\ "clear" \in released
    /\ \E i \in DOMAIN w_handled : IsClear(w_handled[i].change) /\ w_handled[i].freed
(***************************************************************************)
(* C12: _release_note is idempotent: two calls in a row on the same note   *)
(* leave free and busy as the first call left them, and a call on a note   *)
(* that is already free changes neither set.                               *)
(***************************************************************************)
C12_ReleaseIdempotent ==
    \A i \in DOMAIN rel_log :
        /\ rel_log[i].nid \in rel_log[i].before.free => rel_log[i].after = rel_log[i].before
        /\ (i > 1 /\ rel_log[i - 1].nid = rel_log[i].nid) =>
               rel_log[i].after = rel_log[i - 1].after

\* A busy note has been released twice in a row.
C12_Witness ==
    \E i \in DOMAIN rel_log :
        /\ i > 1
        /\ rel_log[i - 1].nid = rel_log[i].nid
        /\ rel_log[i - 1].nid \in rel_log[i - 1].before.busy
        /\ rel_log[i].nid \in free_notes

(***************************************************************************)
(* C13: when get_chunk(request_id, n) returns a payload, head_chunk of the *)
(* same chunk is false afterwards and a second get_chunk returns None; the *)
(* chunk map of the request is removed when its last chunk is taken and    *)
(* loses only chunk n otherwise; a chunk that is absent shows up again     *)
(* only through a store of a DATA unit.  head_chunk is a read: the model   *)
(* evaluates it on inbox_data without a step.                              *)
(***************************************************************************)
C13_GetChunkConsumes ==
    /\ [][\A n \in 1..MaxChunks : (TunnelRecv /\ n = ExpectedChunk(received)) =>
            LET key == InboxKey(RID, TYPE_DATA) IN
            /\ ~HeadChunk(RID, n)'
            /\ GetChunk(inbox_data', RID, n).ret = NoData
            /\ IF DOMAIN inbox_data[key] = {n}
               THEN key \notin DOMAIN inbox_data'
               ELSE /\ key \in DOMAIN inbox_data'
                    /\ inbox_data'[key] = MapDel(inbox_data[key], n)
            /\ \A other \in DOMAIN inbox_data \ {key} :
                   other \in DOMAIN inbox_data' /\ inbox_data'[other] = inbox_data[other]]_vars
    /\ [][\A n \in 1..MaxChunks :
            (~HeadChunk(RID, n) /\ HeadChunk(RID, n)') => stored' # stored]_vars

\* Both chunks have been taken and the chunk map of the request is gone.
C13_Witness ==
    /\ Len(written) = MaxChunks
    /\ InboxKey(RID, TYPE_DATA) \notin DOMAIN inbox_data
    /\ Len(stored) >= MaxChunks

(***************************************************************************)
(* C14: right after _cleanup_stale, inbox_data has no key whose request-id *)
(* timestamp is more than STALE_TIMEOUT_MS older than the clock reading    *)
(* the reaper took, and every key that is not that old is still there      *)
(* with the chunks it had.                                                 *)
(***************************************************************************)
C14_ReaperRemovesExactlyStale ==
    [][CleanupStale =>
          /\ \A key \in DOMAIN inbox_data' : NowMs - key[1].ts <= STALE_TIMEOUT_MS
          /\ \A key \in DOMAIN inbox_data :
                 NowMs - key[1].ts <= STALE_TIMEOUT_MS =>
                     key \in DOMAIN inbox_data' /\ inbox_data'[key] = inbox_data[key]]_vars

\* The reaper has removed the chunks of the old tunnel and kept those of the
\* tunnel that is exactly STALE_TIMEOUT_MS old and of the young one.
C14_Witness ==
    /\ now = 1
    /\ \E i \in DOMAIN stored : stored[i].title.request_id = RID
    /\ InboxKey(RID, TYPE_DATA) \notin DOMAIN inbox_data
    /\ InboxKey(RIDEdge, TYPE_DATA) \in DOMAIN inbox_data
    /\ InboxKey(RIDLate, TYPE_DATA) \in DOMAIN inbox_data

(***************************************************************************)
(* C15: every title _parse_title accepts yields a direction in {<, >}, a   *)
(* request_id of 16 characters, 1 <= chunk <= 99999, 0 <= total <= 99999   *)
(* and a type of 4 characters.                                             *)
(***************************************************************************)
C15_ParsedTitleRanges ==
    (parse_call # NoItem /\ parse_call.result # NoItem) =>
        /\ parse_call.result.direction \in {"<", ">"}
        /\ Len(parse_call.result.request_id) = 16
        /\ 1 <= parse_call.result.chunk /\ parse_call.result.chunk <= 99999
        /\ 0 <= parse_call.result.total /\ parse_call.result.total <= 99999
        /\ Len(parse_call.result.type) = 4

\* The attempts of a log that have ended: every event but "apply" ends one.
AttemptsUpTo(log, i) == Cardinality({j \in 1..i : log[j] # "apply"})

(***************************************************************************)
(* C16: _patch_note makes at most max_retries + 1 = 4 attempts; after an   *)
(* HTTP 5xx response, a network error or a timeout it goes on to another   *)
(* attempt while retries remain; the first HTTP 4xx response ends the call *)
(* with failure; the call returns success exactly when an attempt got      *)
(* HTTP 200 or 201.                                                        *)
(***************************************************************************)
C16_PatchRetries ==
    patch_call # NoItem =>
        LET log == patch_call.log
            phase == patch_call.t.phase IN
        /\ AttemptsUpTo(log, Len(log)) <= max_retries + 1
        /\ \A i \in DOMAIN log :
               /\ (log[i] \in {"http5xx", "http501", "neterr"}
                   /\ AttemptsUpTo(log, i) <= max_retries) =>
                      ~(i = Len(log) /\ phase = "fail")
               /\ log[i] = "http4xx" => (i = Len(log) /\ phase = "fail")
        /\ phase = "ok" <=> (\E i \in DOMAIN log : log[i] = "http200")
        /\ phase \in {"ok", "fail"} <=>
               \/ \E i \in DOMAIN log : log[i] \in {"http200", "http4xx"}
               \/ AttemptsUpTo(log, Len(log)) = max_retries + 1

\* The units of the batches handed to _send_pool, one sequence per batch.
DispatchedTitles(i) == {dispatched[i].items[k].title : k \in DOMAIN dispatched[i].items}

(***************************************************************************)
(* C17: when do_send returns after a failed _patch_note the note of the    *)
(* batch is in free and not in busy, and nothing is put back: the queue,   *)
(* the sender's batch and the dispatched batches are as before and no new  *)
(* closure exists; when it returns after a successful _patch_note the pool *)
(* is left as it was.  No unit is dispatched in two batches, and a busy    *)
(* note becomes free only when a do_send fails on it or when the receiver  *)
(* loop handles a page with a clear of it.                                 *)
(***************************************************************************)
C17_FailedSendReleasesOnly ==
    /\ [][\A t \in send_tasks :
            (Len(outcomes') = Len(outcomes) + 1 /\ outcomes'[Len(outcomes')].id = t.id) =>
                /\ send_tasks' = send_tasks \ {t}
                /\ UNCHANGED <<batch_queue, batch, batch_chars, pending, dispatched>>
                /\ IF outcomes'[Len(outcomes')].ok
                   THEN UNCHANGED <<free_notes, busy_notes>>
                   ELSE t.note \in free_notes' /\ t.note \notin busy_notes']_vars
    /\ [][\A n \in busy_notes : n \in free_notes' =>
            \/ /\ Len(outcomes') = Len(outcomes) + 1
               /\ outcomes'[Len(outcomes')].note = n
               /\ ~outcomes'[Len(outcomes')].ok
            \/ /\ w_feed' = <<>>
               /\ \E i \in DOMAIN w_feed : IsClear(w_feed[i]) /\ w_feed[i].note = n]_vars
    /\ [](\A i, j \in DOMAIN dispatched :
             i # j => DispatchedTitles(i) \cap DispatchedTitles(j) = {})

\* One batch has failed and its note was released; a later batch on the
\* same note succeeded and the note is still busy.
C17_Witness ==
    /\ send_tasks = {}
    /\ \E i, j \in DOMAIN outcomes :
           /\ i < j
           /\ ~outcomes[i].ok
           /\ outcomes[j].ok
           /\ outcomes[j].note \in busy_notes
           /\ outcomes[j].note = outcomes[i].note

(***************************************************************************)
(* C18: while both endpoints keep running, every write-pool note that is   *)
(* busy is eventually free again, whatever faults the PATCH calls of the   *)
(* batch writes and of the clears meet.                                    *)
(***************************************************************************)
C18_BusyNoteFreedAgain ==
    \A n \in write_pool : (n \in busy_notes) ~> (n \in free_notes)

(***************************************************************************)
(* C19: while the stop flag is unset both the sender loop and the receiver *)
(* loop run, and a step in which an iteration raises (a failed dispatch, a *)
(* malformed item of a page) leaves both loops running, each back at the   *)
(* head of its next iteration.                                             *)
(***************************************************************************)
C19_LoopsSurviveExceptions ==
    /\ [](~stop_flag => alive = {"sender", "receiver"})
    /\ [][(errors' # errors) =>
            /\ alive' = alive
            /\ (s_pc # s_pc' => s_pc' = "drain")
            /\ (w_pc # w_pc' => w_pc' = "poll")]_vars

\* Each loop has caught an exception, the flag is unset and both loops run:
\* the receiver has since handled a page and stored its revision.
C19_Witness ==
    /\ ~stop_flag
    /\ \E i, j \in DOMAIN errors : errors[i] = "sender" /\ errors[j] = "receiver"
    /\ alive = {"sender", "receiver"}
    /\ w_pc = "poll" /\ w_handled # <<>> /\ w_feed = <<>> /\ "clear" \in released

(***************************************************************************)
(* C20: after stop() the sender loop and the receiver loop each exit,      *)
(* from every reachable state.                                             *)
(***************************************************************************)
C20_LoopsExitAfterStop == stop_flag ~> (alive = {})

\* The request ids the peers of MsgInboxSpec and ChunkInboxSpec use.
InboxRids == {RID, RID2, RID3}

(***************************************************************************)
(* C21: right after a run of the stale reaper, the endpoint holds no inbox *)
(* state for a request id whose timestamp is more than STALE_TIMEOUT_MS    *)
(* old: no entry in the chunk map, none in inbox_complete and none in      *)
(* pending_requests, one-shot messages nobody took included.               *)
(***************************************************************************)
C21_ReaperLeavesNoStaleState ==
    [][CleanupStale =>
          \A rid \in InboxRids :
              NowMs - rid.ts > STALE_TIMEOUT_MS =>
                  /\ \A key \in DOMAIN inbox_data' : key[1] # rid
                  /\ \A key \in DOMAIN inbox_complete' : key[1] # rid
                  /\ \A i \in DOMAIN pending_requests' : pending_requests'[i][1] # rid]_vars

(***************************************************************************)
(* C22: in each producing tunnel loop (HTTP CONNECT client, SOCKS5 client, *)
(* worker) the k-th put_chunk call of a request carries chunk index k:     *)
(* indices start at 1 and grow by one with every emitted chunk, whether    *)
(* the chunk leaves by the overflow flush, the idle flush or the final     *)
(* flush on exit.                                                          *)
(***************************************************************************)
C22_ChunkIndicesDense ==
    /\ Len(batch_queue) = Len(flushes)
    /\ chunk_id_sent = Len(batch_queue)
    /\ \A k \in DOMAIN batch_queue :
           /\ batch_queue[k].title.chunk = k
           /\ batch_queue[k].title.type = TYPE_DATA
           /\ batch_queue[k].title.request_id = RID

\* A loop has left after an overflow (or size) flush, an idle flush and a
\* final flush.
C22_Witness ==
    /\ t_pc = "closed"
    /\ \E i, j \in DOMAIN flushes :
           /\ flushes[i] \in {"overflow", "size"}
           /\ flushes[j] = "idle"
    /\ flushes[Len(flushes)] = "final"

\* The positions of an event in the log of the tunnel set-up.
Logged(ev) == {i \in DOMAIN hs_log : hs_log[i] = ev}

\* The units of a type in a queue.
UnitsOf(q, mtype) == {i \in DOMAIN q : q[i].title.type = mtype}

(***************************************************************************)
(* C23: for a tunnel request the handshake order holds.  The worker puts   *)
(* its RESP with status 200 only after it has dequeued the RQST and        *)
(* connected, and puts DATA only after that RESP; the client puts DATA     *)
(* only after it has taken a RESP with status 200; a client whose set-up   *)
(* window ends without such a RESP reports 504 (SOCKS5: reply 4), and      *)
(* never puts DATA for the request.                                        *)
(***************************************************************************)
C23_HandshakeOrder ==
    /\ [](/\ Cardinality(UnitsOf(k_queue, TYPE_RESP)) = Cardinality(Logged("k_resp"))
          /\ Cardinality(UnitsOf(k_queue, TYPE_DATA)) = Cardinality(Logged("k_data"))
          /\ \A i \in Logged("k_resp") :
                 \E j \in Logged("k_connected") : \E l \in Logged("k_rqst") : l < j /\ j < i
          /\ \A i \in Logged("k_data") : \E j \in Logged("k_resp") : j < i
          /\ UnitsOf(batch_queue, TYPE_DATA) # {} =>
                 (h_pc = "ready" /\ Logged("c_resp200") # {})
          /\ h_pc = "ready" <=> Logged("c_resp200") # {}
          /\ h_pc = "failed" =>
                 /\ h_reply = FailureReply(t_kind)
                 /\ Logged("c_resp200") = {}
                 /\ UnitsOf(batch_queue, TYPE_DATA) = {}
          /\ h_reply # "none" => h_pc = "failed")
    /\ [][/\ (h_pc = "wait" /\ h_pc' # "wait") =>
                 \/ h_pc' = "ready" /\ hs_log' = Append(hs_log, "c_resp200")
                 \/ h_pc' = "failed" /\ h_reply' = FailureReply(t_kind)
          /\ h_pc = "failed" => (h_pc' = "failed" /\ batch_queue' = batch_queue)]_vars

\* The client took a response that was not ready, then the ready one, and
\* both sides have put DATA.
C23_Witness ==
    /\ \E i \in Logged("c_respbad") : \E j \in Logged("c_resp200") : i < j
    /\ UnitsOf(batch_queue, TYPE_DATA) # {}
    /\ Logged("k_data") # {}

\* The steps that are external I/O in the sense of the claim: HTTP calls
\* and socket operations.
ExternalIO(st) == st.op = "io" /\ st.arg \in {"http_get", "http_patch", "socket"}

(***************************************************************************)
(* C24: no thread holds the note-pool lock, the inbox lock or the revision *)
(* lock while it performs an HTTP GET, an HTTP PATCH or a socket           *)
(* operation, and the chunks of a multi-chunk message are joined with the  *)
(* inbox lock released by the joining thread.                              *)
(***************************************************************************)
C24_NoLockAcrossIO ==
    \A th \in Threads :
        /\ ExternalIO(NextStep(th)) => Held(th) = {}
        /\ NextStep(th).op = "join" => "inbox" \notin Held(th)
        /\ NextStep(th).op = "release" => NextStep(th).arg \in Held(th)

\* The process pool joins chunks while the tunnel loop holds the inbox
\* lock, and the receiver waits for its poll while the sender holds the
\* pool lock.
C24_Witness ==
    /\ NextStep("process_pool").op = "join"
    /\ lock_owner["inbox"] = "tunnel"
    /\ ExternalIO(NextStep("receiver"))
    /\ lock_owner["pool"] = "sender"

\* The batch a batch write carries (the retries of a do_send carry the same
\* batch), and the batches whose units the reader has stored.
BatchOf(w) == w.tag[1]
ProcessedBatches == {p[1] : p \in processed}

\* The PATCH w may be applied to note n: the last PATCH applied to n is a
\* clear, or a batch the reader has stored, or the batch of w itself (a
\* retry writes the same text again), or there is none.
MayOverwrite(n, w) ==
    LET on == {i \in DOMAIN writes : writes[i].note = n} IN
    \/ on = {}
    \/ LET last == writes[CHOOSE i \in on : \A j \in on : j <= i] IN
       \/ IsClear(last)
       \/ BatchOf(last) \in ProcessedBatches
       \/ ~IsClear(w) /\ BatchOf(w) = BatchOf(last)

(***************************************************************************)
(* C25: a batch written to a note is not overwritten or cleared before the *)
(* peer's receiver has processed it: whenever the service applies a PATCH  *)
(* to a note whose last applied PATCH was the write of another batch, the  *)
(* reader has stored the units of that batch in its inbox.  PATCH attempts *)
(* whose request is applied and whose reply is lost are included.          *)
(***************************************************************************)
C25_NoOverwriteBeforeProcessed ==
    [][\A n \in write_pool :
          (Len(writes') = Len(writes) + 1 /\ writes'[Len(writes')].note = n) =>
              MayOverwrite(n, writes'[Len(writes')])]_vars

(***************************************************************************)
(* C26: while the consuming tunnel loop of a request runs, a DATA chunk of  *)
(* that request that is in the inbox with an index greater than the loop's *)
(* received counter leaves the inbox only through the loop's get_chunk,    *)
(* however old the request id is.                                          *)
(***************************************************************************)
C26_ChunkStaysUntilTaken ==
    [][\A n \in 1..MaxChunks :
          (HeadChunk(RID, n) /\ n > received /\ ~HeadChunk(RID, n)') =>
              (TunnelRecv /\ n = ExpectedChunk(received))]_vars

\* The units of the batches handed to _send_pool so far, in hand-over order.
RECURSIVE DispatchedUnits(_)
DispatchedUnits(k) ==
    IF k = 0 THEN <<>> ELSE DispatchedUnits(k - 1) \o dispatched[k].items

\* The units the sender still holds: the local batch, then the unit taken
\* by the overflow trigger, then the queue.
HeldUnits ==
    batch \o (IF pending = NoItem THEN <<>> ELSE <<pending>>) \o batch_queue

CharsOf(units) == [k \in DOMAIN units |-> units[k].chars]

(***************************************************************************)
(* C27: while the endpoint is not stopped, every unit put on the sender    *)
(* queue is in exactly one dispatched batch or still waiting for its       *)
(* dispatch, in the order of the put calls, inside a batch and from batch  *)
(* to batch; no dispatched batch is empty and _fire_send never waits for a *)
(* note with an empty batch.                                               *)
(***************************************************************************)
C27_EveryUnitInOneBatch ==
    ~stop_flag =>
        /\ CharsOf(DispatchedUnits(Len(dispatched)) \o HeldUnits) =
               [k \in DOMAIN put_log |-> put_log[k].chars]
        /\ \A i \in DOMAIN dispatched : dispatched[i].items # <<>>
        /\ s_pc \in {"fire", "wait"} => batch # <<>>

\* len(title) + len(encoded) + 2 of a queued unit.
C28_ItemChars(item) == TitleLen(item.title) + item.chars + 2

C29_BacklogBounded ==
    (free_notes = {} /\ s_pc = "wait") => Len(HeldUnits) < MaxQueued - NumNotes

BothPoolsBusy == \A r \in Roles : d_free[r] = {} /\ d_busy[r] = write_pool

(***************************************************************************)
(* C31: when every note of both write pools is busy and a sender waits in  *)
(* _fire_send, that sender eventually acquires a note: the receivers keep  *)
(* processing and clearing the peer's notes (weak fairness, no failing     *)
(* PATCH).                                                                 *)
(***************************************************************************)
C31_NoMutualDeadlock ==
    \A r \in Roles : (BothPoolsBusy /\ d_pc[r] = "wait") ~> (d_pc[r] = "drain")

\* Both pools are full and both senders wait for a note.
C31_Witness == BothPoolsBusy /\ \A r \in Roles : d_pc[r] = "wait"

(***************************************************************************)
(* C32: the worker's main loop gets every request id at most once from     *)
(* get_pending_request, so it starts at most one handler thread for a      *)
(* client request.                                                         *)
(***************************************************************************)
C32_RequestExecutedOnce ==
    \A i, j \in DOMAIN executed : executed[i] = executed[j] => i = j

\* The revisions of the changes the loop has submitted to _process_pool.
SubmittedRevs == SelectSeq(rv_log, LAMBDA e : e.what = "submit")

(***************************************************************************)
(* C33: a failed poll and an iteration that raises leave the stored        *)
(* revision unchanged, the revision changes only at the end of a page and  *)
(* then equals the page's revision value, and no change is submitted to    *)
(* processing more than once.                                              *)
(***************************************************************************)
C33_RevisionAndSingleSubmit ==
    /\ [](\A i, j \in DOMAIN SubmittedRevs :
              SubmittedRevs[i].rev = SubmittedRevs[j].rev => i = j)
    /\ [][/\ errors' # errors => last_revision' = last_revision
          /\ last_revision' # last_revision =>
                 (rv_pc = "page" /\ rv_page = <<>> /\ last_revision' = new_rev)]_vars

(***************************************************************************)
(* C34: the receiver loop submits to processing only changes of notes of   *)
(* its read pool and releases only notes of its own write pool; a change   *)
(* of any other record, a change whose type is not update and a record id  *)
(* that is not a note id leave the pool and the inbox unchanged and submit *)
(* nothing.                                                                *)
(***************************************************************************)
C34_OnlyOwnPools ==
    [][IF Len(rv_log') = Len(rv_log) + 1
       THEN LET e == rv_log'[Len(rv_log')]
                c == deltas[e.rev] IN
            /\ e.what = "submit" => c.record_id.pool = "peer"
            /\ (e.what = "release" \/ free_notes' # free_notes \/ busy_notes' # busy_notes) =>
                   /\ c.record_id.pool = "own"
                   /\ free_notes' = free_notes \cup {c.record_id.n}
                   /\ busy_notes' = busy_notes \ {c.record_id.n}
            /\ (\/ c.record_id.pool = "none"
                \/ c.change_type # "update"
                \/ c.record_id.form # "note") =>
                   /\ e.what = "skip"
                   /\ UNCHANGED <<free_notes, busy_notes, inboxVars>>
       ELSE UNCHANGED <<free_notes, busy_notes, inboxVars>>]_vars

\* The loop has submitted a filled note of its read pool and has skipped a
\* filled update of a note of neither pool.
C34_Witness ==
    /\ \E i \in DOMAIN rv_log : rv_log[i].what = "submit"
    /\ \E i \in DOMAIN rv_log :
          /\ rv_log[i].what = "skip"
          /\ deltas[rv_log[i].rev].record_id = ForeignNote
          /\ deltas[rv_log[i].rev].change_type = "update"
          /\ deltas[rv_log[i].rev].title # "" /\ deltas[rv_log[i].rev].snippet # ""

\* The inbox after _store_entry has taken the given lines one after another.
RECURSIVE C35_StoredInOrder(_, _)
C35_StoredInOrder(inb, items) ==
    IF items = <<>> THEN inb
    ELSE C35_StoredInOrder(
             PublishAssembled(StoreEntry(inb, Head(items).title,
                                         Base65536Decode(Head(items).data))),
             Tail(items))

\* A line that offends: its title is not one TITLE_RE accepts, its text is
\* not base65536, or its GCM tag does not verify.
C35_Offends(item) ==
    \/ Fmt05dLen(item.title.chunk) # NUM_LEN
    \/ item.title.type \notin {TYPE_DATA, TYPE_RQST, TYPE_RESP}
    \/ BadChar \in {item.data[i] : i \in DOMAIN item.data}
    \/ item \in {BadTagLine}

\* C35: in _process_batch a line whose title does not parse, or whose payload
\* fails base65536 decoding or GCM authentication, is dropped without
\* affecting the other lines: the inbox after the batch is the inbox after
\* storing exactly the other lines in their order, and the clear of the note
\* is submitted.
C35_BadLineDroppedAlone ==
    [][\A t \in proc_tasks :
          (proc_tasks' = proc_tasks \ {t} /\ t.title = RecvDirection(ReaderRole)) =>
              LET good == SelectSeq(t.items, LAMBDA l : ~C35_Offends(l))
                  inb == C35_StoredInOrder(InboxNow, good) IN
              /\ inbox_data' = inb.data
              /\ inbox_complete' = inb.complete
              /\ pending_requests' = inb.pending
              /\ \E c \in clear_tasks' \ clear_tasks : c.note = t.note]_vars

\* A snippet of three lines was processed: the request and the chunk around
\* an offending line are in the inbox and the clear has been submitted.
C35_Witness ==
    /\ processed # {}
    /\ InboxKey(RID2, TYPE_RQST) \in DOMAIN inbox_complete
    /\ InboxKey(RID, TYPE_DATA) \in DOMAIN inbox_data
    /\ Len(stored) = 2
    /\ pending_requests # <<>>

\* The payload of a queued unit: what base65536.decode gives the receiver.
PayloadOf(u) == Base65536Decode(u.data)

\* The payloads of the queued chunks joined in index order.
RECURSIVE JoinedPayloads(_)
JoinedPayloads(q) ==
    IF q = <<>> THEN <<>> ELSE PayloadOf(Head(q)) \o JoinedPayloads(Tail(q))

\* C36: when a tunnel loop has exited (EOF, socket error or idle timeout),
\* the payloads of all chunks it has put, joined in index order, are exactly
\* the bytes it read in read order, and a non-empty residual buffer has been
\* put as the final chunk; while the loop runs, the chunks put followed by
\* the buffer are the bytes read.
C36_StreamPreserved ==
    /\ t_pc = "loop" => JoinedPayloads(batch_queue) \o t_buf = t_recvs
    /\ t_pc = "closed" => JoinedPayloads(batch_queue) = t_recvs
    /\ (t_pc = "closed" /\ t_buf # <<>>) =>
           /\ flushes # <<>> /\ flushes[Len(flushes)] = "final"
           /\ PayloadOf(batch_queue[Len(batch_queue)]) = t_buf

\* A loop has exited with a residual buffer after reads of different sizes
\* and an earlier flush.
C36_Witness ==
    /\ t_pc = "closed"
    /\ t_buf # <<>>
    /\ Len(batch_queue) >= 2
    /\ \E i, j \in DOMAIN t_recvs : t_recvs[i] # t_recvs[j]

\* C37: every DATA chunk put by any of the three tunnel loops has a payload
\* of at least 1 byte and at most chunk_size bytes.
C37_ChunkSizeBounded ==
    \A k \in DOMAIN batch_queue :
        /\ SumSeq(PayloadOf(batch_queue[k])) >= 1
        /\ SumSeq(PayloadOf(batch_queue[k])) <= chunk_size

\* C38: after one end of a tunnel has left its tunnel loop, the other end's
\* loop for the same request_id eventually terminates, whatever its own
\* local or target socket keeps doing.
C38_PeerGoneLeadsToExit ==
    \A r \in Roles : (tn_pc[Peer(r)] = "closed") ~> (tn_pc[r] = "closed")

\* C39: for every unit an endpoint enqueues (16-character request_id, any
\* chunk index a tunnel loop reaches, total 0 or 1, type DATA, RQST or RESP)
\* the title built by _make_title is accepted by the peer's _parse_title and
\* yields the same direction, request_id, chunk, total and type.
C39_TitleRoundTrip ==
    (parse_call # NoItem /\ "made" \in DOMAIN parse_call) =>
        /\ parse_call.result # NoItem
        /\ parse_call.result = parse_call.made

\* The round trip for the chunk indices of at most five digits.
C39_ShortTunnelRoundTrip ==
    (parse_call # NoItem /\ "made" \in DOMAIN parse_call
        /\ parse_call.made.chunk < LongTunnelChunks) =>
        parse_call.result = parse_call.made

\* Every unit the client has queued, batched or dispatched and every note
\* title it writes carries the client's marker.
C40_OwnMarker ==
    LET mark == IF WriterRole = "client" THEN ">" ELSE "<"
        Marked(items) == \A i \in DOMAIN items : items[i].title.direction = mark IN
    /\ Marked(batch_queue) /\ Marked(batch)
    /\ pending # NoItem => pending.title.direction = mark
    /\ \A t \in send_tasks : t.title = mark /\ Marked(t.items)
    /\ \A i \in DOMAIN writes :
           (writes[i].snippet # <<>>) => (writes[i].title = mark /\ Marked(writes[i].snippet))

\* C40: every unit title an endpoint builds and the outer note title of every
\* batch it writes carry that endpoint's own direction marker, and the
\* receiver stores into its inbox only units whose outer note title and unit
\* title both carry its recv_direction: a _process_batch call leaves the
\* inbox as it is after storing exactly those lines.
C40_DirectionMarkers ==
    /\ []C40_OwnMarker
    /\ [][\A t \in proc_tasks :
            (proc_tasks' = proc_tasks \ {t}) =>
                LET recv == IF ReaderRole = "client" THEN "<" ELSE ">"
                    mine == IF t.title = recv
                            THEN SelectSeq(t.items, LAMBDA l : l.title.direction = recv)
                            ELSE <<>>
                    inb == C35_StoredInOrder(InboxNow, mine) IN
                /\ inbox_data' = inb.data
                /\ inbox_complete' = inb.complete
                /\ pending_requests' = inb.pending]_vars

\* The foreign batch had the reader's marker as its note title and was
\* processed, its line had the other marker and was not stored, and a
\* request of the client was stored.
C40_Witness ==
    /\ <<0, 0>> \in processed
    /\ \A i \in DOMAIN pending_requests : pending_requests[i][1] \notin {RID, RID3}
    /\ InboxKey(RID, TYPE_RQST) \notin DOMAIN inbox_complete
    /\ pending_requests # <<>>

====
